---- MODULE Spec2Model ----
(***************************************************************************)
(* Ingestion-and-enrichment pipeline of the news aggregator:               *)
(*   backend/models.py    Article, BiasLabel, ProcessingStatus             *)
(*   backend/database.py  save_article, get_pending_articles,              *)
(*                        get_backfill_candidates                          *)
(*   backend/agents.py    AnalystAgent.process_article                     *)
(*   backend/main.py      batch_ingest, process_queue, process_backfill,   *)
(*                        process_background_queue, process_backfill_queue *)
(*                                                                         *)
(* All coroutines run on one asyncio event loop.  A coroutine only yields  *)
(* at an await that really suspends: the page fetch inside process_article *)
(* (run_in_executor), asyncio.sleep, asyncio.gather.  save_article and the *)
(* database queries contain no suspending await, and generate_content is a *)
(* synchronous call, so everything between two suspension points is one    *)
(* atomic step of the model.                                               *)
(***************************************************************************)
EXTENDS Integers, Sequences, FiniteSets, TLC

(***************************************************************************)
(* Bounds of the model.                                                    *)
(***************************************************************************)
NumUrls == 1        \* well-formed URLs the feeds can yield in the small store
MaxDrains == 2      \* drain tasks (triggers) that can be alive together
ExtraUrls == 1      \* articles beyond a full page, or beyond the recent window
MaxRounds == 3      \* the round counter of a drain saturates here
MaxBackfillRuns == 2 \* backfill triggers in a run
MaxEntries == 2     \* entries of a source in the small feeds
ExtraEntries == 1   \* recent entries of a source beyond the category cap
ExtraChars == 1     \* characters of a page beyond the 200 of the length test
MaxFailures == 2    \* failing analyses in one run over the full-page store

(***************************************************************************)
(* Program constants.                                                      *)
(***************************************************************************)
PageLimit == 10         \* main.py:151  get_pending_articles(limit=10, ...)
SemPermits == 3         \* main.py:165  asyncio.Semaphore(3)
BackfillLimit == 20     \* main.py:105  get_backfill_candidates(limit=20)
RecentWindow == 100     \* database.py:109  .limit(100)
SummaryMinLen == 10     \* database.py:131  len(summary) < 10

(***************************************************************************)
(* models.py                                                               *)
(***************************************************************************)
BiasLabel == {"Left", "Lean Left", "Center", "Lean Right", "Right", "N/A"}
ProcessingStatus == {"pending", "processed", "failed"}

(***************************************************************************)
(* URLs are short character sequences: netloc characters, "/", path.       *)
(***************************************************************************)
Url(n) == <<"h", "/", ToString(n)>>
BadUrl == <<"[", "/", "x">>
MaxIdx == RecentWindow + ExtraUrls
SmallUrls == {Url(n) : n \in 1..NumUrls} \cup {BadUrl}

\* urlparse(url).netloc: the characters before the first "/"
RECURSIVE Netloc(_)
Netloc(u) ==
    IF u = <<>> \/ Head(u) = "/" THEN <<>> ELSE <<Head(u)>> \o Netloc(Tail(u))

Contains(s, c) == \E i \in DOMAIN s : s[i] = c

\* urllib.parse.urlsplit raises ValueError("Invalid IPv6 URL") when the
\* netloc has one bracket without the other
UrlParses(u) ==
    LET nl == Netloc(u)
    IN  ~ ( (Contains(nl, "[") /\ ~Contains(nl, "]"))
            \/ (Contains(nl, "]") /\ ~Contains(nl, "[")) )

\* database.py:25  article.url.replace("/", "_")
DocId(u) == [i \in DOMAIN u |-> IF u[i] = "/" THEN "_" ELSE u[i]]

\* urls of several hosts: one host with and without "www.", a host that
\* urlparse rejects, and a host with more articles than a query returns
QueryLimit == 20        \* database.py:273, 281
SiteUrl(host, n) == host \o <<"/", ToString(n)>>
HostA == <<"a">>
HostWwwA == <<"w", "w", "w", ".", "a">>
HostB == <<"b">>
HostBad == <<"[", "x">>
SiteUrls ==
    << SiteUrl(HostA, 1), SiteUrl(HostA, 2), SiteUrl(HostWwwA, 3),
       SiteUrl(HostBad, 1), SiteUrl(HostBad, 2) >>
    \o [n \in 1..(QueryLimit + ExtraUrls) |-> SiteUrl(HostB, n)]

\* Firestore streams a query without order_by in document-id order
DocOrder == [n \in 1..(MaxIdx + 1) |->
                IF n <= MaxIdx THEN DocId(Url(n)) ELSE DocId(BadUrl)]
            \o [i \in DOMAIN SiteUrls |-> DocId(SiteUrls[i])]

(***************************************************************************)
(* Texts are named by where they come from; TextLen is their length.       *)
(***************************************************************************)
None == "None"
NoKeyText == "Summary unavailable (No API Key)"

TextLen(t) ==
    CASE t = "" -> 0
      [] t = "ai_short" -> 5
      [] t = NoKeyText -> 32
      [] OTHER -> 150

\* agents.py:57-68  the draft the harvester builds for a feed entry
Draft(u, category, published) ==
    [ url |-> u,
      headline |-> "rss_title",
      summary |-> "rss_summary",
      tldr_summary |-> None,
      detailed_summary |-> None,
      bias_label |-> "N/A",
      topic_tags |-> {category},
      keywords |-> <<>>,
      processing_status |-> "pending",
      created_at |-> published ]

\* publish time of the feed entry with this url
Published(u) == IF u = BadUrl THEN 0 ELSE (CHOOSE n \in 1..MaxIdx : Url(n) = u) % 3

(***************************************************************************)
(* database.py                                                             *)
(***************************************************************************)
\* save_article: doc_ref.set(article.dict()) replaces the whole document
SaveArticle(s, art) ==
    [k \in (DOMAIN s) \cup {DocId(art.url)} |->
        IF k = DocId(art.url) THEN art ELSE s[k]]

\* the stored documents in document-id order
StreamAll(s) ==
    LET ids == SelectSeq(DocOrder, LAMBDA k : k \in DOMAIN s)
    IN  [i \in 1..Len(ids) |-> s[ids[i]]]

Take(q, n) == IF Len(q) <= n THEN q ELSE SubSeq(q, 1, n)

\* .where("processing_status", "==", "pending").limit(limit).stream()
WherePending(s, limit) ==
    Take(SelectSeq(StreamAll(s), LAMBDA a : a.processing_status = "pending"), limit)

\* the call main.py:151 is written for: the first `limit` documents whose
\* status is one of `statuses`
GetPendingArticlesStatuses(s, limit, statuses) ==
    Take(SelectSeq(StreamAll(s), LAMBDA a : a.processing_status \in statuses), limit)

\* order_by("created_at", DESCENDING): ties broken by document id, descending
SortRecent(q) ==
    LET before(i, j) == \/ q[i].created_at > q[j].created_at
                        \/ q[i].created_at = q[j].created_at /\ i > j
        rank(i) == Cardinality({j \in DOMAIN q : before(j, i)}) + 1
    IN  [k \in 1..Len(q) |-> q[CHOOSE i \in DOMAIN q : rank(i) = k]]

RecentDocs(s) == Take(SortRecent(StreamAll(s)), RecentWindow)

\* NeedsUpdate without the keywords criterion of lines 133-134
NeedsUpdateNoKeywords(data) ==
    IF data.processing_status # "processed" THEN TRUE
    ELSE IF data.detailed_summary = None
            \/ TextLen(data.detailed_summary) < SummaryMinLen THEN TRUE
    ELSE FALSE

\* database.py:119-134
NeedsUpdate(data) ==
    IF data.processing_status # "processed" THEN TRUE
    ELSE IF data.detailed_summary = None
            \/ TextLen(data.detailed_summary) < SummaryMinLen THEN TRUE
    ELSE IF Len(data.keywords) = 0 THEN TRUE
    ELSE FALSE

\* database.py:112-139  the loop over recent_docs: a document is appended
\* when it needs an update and no candidate has its url (line 115), a
\* candidate selected as pending or one appended before it; the loop ends
\* with the append that brings the candidates to the limit (lines 138-139)
ScanRecent(recent, candidates, limit) ==
    LET appended(i) ==
            /\ NeedsUpdate(recent[i])
            /\ \A c \in DOMAIN candidates : candidates[c].url # recent[i].url
            /\ \A j \in 1..(i - 1) :
                  ~(recent[j].url = recent[i].url /\ NeedsUpdate(recent[j]))
        taken == {i \in DOMAIN recent : appended(i)}
        nth(k) == CHOOSE i \in taken : Cardinality({j \in taken : j < i}) = k - 1
        room == IF limit - Len(candidates) < 1 THEN 1 ELSE limit - Len(candidates)
        n == IF Cardinality(taken) < room THEN Cardinality(taken) ELSE room
    IN  candidates \o [k \in 1..n |-> recent[nth(k)]]

\* database.py:80-144
GetBackfillCandidates(s, limit) ==
    LET pending == WherePending(s, limit)
    IN  IF Len(pending) >= limit THEN pending
        ELSE ScanRecent(RecentDocs(s), pending, limit)

(***************************************************************************)
(* database.py  find_similar_articles                                      *)
(***************************************************************************)
SimilarLimit == 5       \* database.py:206
KeywordCap == 10        \* database.py:272
BiasBonus == 10         \* database.py:292
KeywordBonus == 5       \* database.py:295

\* str.replace("www.", ""): every occurrence, left to right
RECURSIVE StripWww(_)
StripWww(nl) ==
    IF nl = <<>> THEN <<>>
    ELSE IF Len(nl) >= 4 /\ SubSeq(nl, 1, 4) = <<"w", "w", "w", ".">>
         THEN StripWww(SubSeq(nl, 5, Len(nl)))
         ELSE <<Head(nl)>> \o StripWww(Tail(nl))

\* database.py:232-237  "" when urlparse raises
TargetDomain(target_data) ==
    IF UrlParses(target_data.url) THEN StripWww(Netloc(target_data.url)) ELSE <<>>

SeqToSet(q) == {q[i] : i \in DOMAIN q}

\* database.py:251-267  acc is [candidates, seen_urls]
RECURSIVE ProcessResults(_, _, _)
ProcessResults(docs, acc, target_domain) ==
    IF docs = <<>> THEN acc
    ELSE LET data == Head(docs)
         IN  IF data.url \in acc.seen_urls
             THEN ProcessResults(Tail(docs), acc, target_domain)
             ELSE IF UrlParses(data.url) /\ StripWww(Netloc(data.url)) = target_domain
             THEN ProcessResults(Tail(docs), acc, target_domain)
             ELSE ProcessResults(Tail(docs),
                      [candidates |-> Append(acc.candidates, data),
                       seen_urls |-> acc.seen_urls \cup {data.url}],
                      target_domain)

\* database.py:288-299
DiversityScore(article, target_data) ==
    (IF article.bias_label # target_data.bias_label THEN BiasBonus ELSE 0)
    + Cardinality(SeqToSet(article.keywords) \cap SeqToSet(target_data.keywords))
        * KeywordBonus
    + Cardinality(article.topic_tags \cap target_data.topic_tags)

\* a descending sort that puts the later of two equal scores first
SortByScoreTiesReversed(candidates, target_data) ==
    LET before(i, j) ==
            \/ DiversityScore(candidates[i], target_data)
                  > DiversityScore(candidates[j], target_data)
            \/ /\ DiversityScore(candidates[i], target_data)
                     = DiversityScore(candidates[j], target_data)
               /\ i > j
        rank(i) == Cardinality({j \in DOMAIN candidates : before(j, i)}) + 1
    IN  [k \in DOMAIN candidates |-> candidates[CHOOSE i \in DOMAIN candidates : rank(i) = k]]

\* a sort by ascending score
SortByScoreAscending(candidates, target_data) ==
    LET before(i, j) ==
            \/ DiversityScore(candidates[i], target_data)
                  < DiversityScore(candidates[j], target_data)
            \/ /\ DiversityScore(candidates[i], target_data)
                     = DiversityScore(candidates[j], target_data)
               /\ i < j
        rank(i) == Cardinality({j \in DOMAIN candidates : before(j, i)}) + 1
    IN  [k \in DOMAIN candidates |-> candidates[CHOOSE i \in DOMAIN candidates : rank(i) = k]]

\* database.py:301  candidates.sort(key=diversity_score, reverse=True): the
\* sort is stable, equal scores keep their order
SortByScore(candidates, target_data) ==
    LET before(i, j) ==
            \/ DiversityScore(candidates[i], target_data)
                  > DiversityScore(candidates[j], target_data)
            \/ /\ DiversityScore(candidates[i], target_data)
                     = DiversityScore(candidates[j], target_data)
               /\ i < j
        rank(i) == Cardinality({j \in DOMAIN candidates : before(j, i)}) + 1
    IN  [k \in DOMAIN candidates |-> candidates[CHOOSE i \in DOMAIN candidates : rank(i) = k]]

\* database.py:271-274  array_contains_any on keywords, the first 20
KeywordDocs(s, target_keywords) ==
    Take(SelectSeq(StreamAll(s),
                   LAMBDA a : SeqToSet(a.keywords)
                                \cap SeqToSet(Take(target_keywords, KeywordCap)) # {}),
         QueryLimit)

\* database.py:279-282  array_contains_any on topic_tags, the first 20
TagDocs(s, target_tags) ==
    Take(SelectSeq(StreamAll(s), LAMBDA a : a.topic_tags \cap target_tags # {}),
         QueryLimit)

\* database.py:246-283  the candidates in retrieval order
Candidates(s, target_data, limit) ==
    LET target_domain == TargetDomain(target_data)
        start == [candidates |-> <<>>, seen_urls |-> {target_data.url}]
        byKeywords ==
            IF target_data.keywords # <<>>
            THEN ProcessResults(KeywordDocs(s, target_data.keywords), start, target_domain)
            ELSE start
        byTags ==
            IF Len(byKeywords.candidates) < limit /\ target_data.topic_tags # {}
            THEN ProcessResults(TagDocs(s, target_data.topic_tags), byKeywords,
                                target_domain)
            ELSE byKeywords
    IN  byTags.candidates

\* database.py:221-222  the first document whose url is article_id
TargetDocs(s, article_id) == SelectSeq(StreamAll(s), LAMBDA a : a.url = article_id)

\* database.py:206-307
FindSimilarArticles(s, article_id, limit) ==
    IF TargetDocs(s, article_id) = <<>> THEN <<>>
    ELSE LET target_data == Head(TargetDocs(s, article_id))
         IN  IF target_data.topic_tags = {} /\ target_data.keywords = <<>> THEN <<>>
             ELSE Take(SortByScore(Candidates(s, target_data, limit), target_data), limit)

\* the tag query issued whenever the reference has tags
QueriesIssuedAlwaysTags(s, article_id, limit) ==
    IF TargetDocs(s, article_id) = <<>> THEN <<"url">>
    ELSE LET target_data == Head(TargetDocs(s, article_id))
         IN  IF target_data.topic_tags = {} /\ target_data.keywords = <<>> THEN <<"url">>
             ELSE <<"url">>
                  \o (IF target_data.keywords # <<>> THEN <<"keywords">> ELSE <<>>)
                  \o (IF target_data.topic_tags # {} THEN <<"topic_tags">> ELSE <<>>)

\* database.py:221-283  the fields of the queries the function sends to the
\* collection, in order: the lookup by url (221), the keyword query (270-274)
\* and the tag query (278-282)
QueriesIssued(s, article_id, limit) ==
    IF TargetDocs(s, article_id) = <<>> THEN <<"url">>
    ELSE LET target_data == Head(TargetDocs(s, article_id))
             byKeywords ==
                 IF target_data.keywords # <<>>
                 THEN ProcessResults(KeywordDocs(s, target_data.keywords),
                                     [candidates |-> <<>>, seen_urls |-> {target_data.url}],
                                     TargetDomain(target_data))
                 ELSE [candidates |-> <<>>, seen_urls |-> {target_data.url}]
         IN  IF target_data.topic_tags = {} /\ target_data.keywords = <<>> THEN <<"url">>
             ELSE <<"url">>
                  \o (IF target_data.keywords # <<>> THEN <<"keywords">> ELSE <<>>)
                  \o (IF Len(byKeywords.candidates) < limit /\ target_data.topic_tags # {}
                      THEN <<"topic_tags">> ELSE <<>>)

\* database.py:246-283  the candidate list before it is sorted and cut
CandidateList(s, article_id, limit) ==
    IF TargetDocs(s, article_id) = <<>> THEN <<>>
    ELSE LET target_data == Head(TargetDocs(s, article_id))
         IN  IF target_data.topic_tags = {} /\ target_data.keywords = <<>> THEN <<>>
             ELSE Candidates(s, target_data, limit)

(***************************************************************************)
(* agents.py  AnalystAgent.process_article                                 *)
(*                                                                         *)
(* A response of the text service: generate_content raised ("error"), the  *)
(* text is not JSON ("notjson"), is JSON but no object ("notobject"), or   *)
(* is an object; a key the object lacks is Absent.                         *)
(***************************************************************************)
Absent == "absent"

Get(v, default) == IF v = Absent THEN default ELSE v

\* agents.py:106-112
NoKeyResult(art) ==
    [art EXCEPT !.processing_status = "failed",
                !.summary = NoKeyText,
                !.tldr_summary = NoKeyText,
                !.detailed_summary = NoKeyText]

\* agents.py:239-248: the assignments run in order; BiasLabel(...) raises
\* ValueError on a label outside the enum and list + non-list raises
\* TypeError, both after the earlier assignments have been made
ApplyResponse(art, data) ==
    LET a1 == [art EXCEPT !.headline = Get(data.headline, art.headline),
                          !.summary = Get(data.tldr, ""),
                          !.tldr_summary = Get(data.tldr, ""),
                          !.detailed_summary = Get(data.detailed_summary, "")]
        label == Get(data.bias_label, "Center")
    IN  IF label \notin BiasLabel
        THEN [a1 EXCEPT !.processing_status = "failed"]
        ELSE LET a2 == [a1 EXCEPT !.bias_label = label]
             IN  IF ~data.tags_is_list
                 THEN [a2 EXCEPT !.processing_status = "failed"]
                 ELSE [a2 EXCEPT !.topic_tags = art.topic_tags \cup data.topic_tags,
                                 !.keywords = data.keywords,
                                 !.processing_status = "processed"]

\* process_article with the test of line 106 made after the page fetch of
\* lines 137-175
ProcessArticleFetchFirst(model, art, resp) ==
    IF ~model
    THEN [raised |-> FALSE, art |-> NoKeyResult(art), fetched |-> TRUE, requested |-> FALSE]
    ELSE IF ~UrlParses(art.url)
    THEN [raised |-> TRUE, art |-> art, fetched |-> TRUE, requested |-> FALSE]
    ELSE IF resp.kind # "object"
         THEN [raised |-> FALSE, art |-> [art EXCEPT !.processing_status = "failed"],
               fetched |-> TRUE, requested |-> TRUE]
         ELSE [raised |-> FALSE, art |-> ApplyResponse(art, resp),
               fetched |-> TRUE, requested |-> TRUE]

\* agents.py:101-254.  raised: the call ended on an exception of its own
\* (line 214 reads `domain`, unbound when urlparse raised at line 184);
\* fetched: fetch_text was run (line 156); requested: generate_content was
\* called (line 233)
ProcessArticle(model, art, resp) ==
    IF ~model
    THEN [raised |-> FALSE, art |-> NoKeyResult(art), fetched |-> FALSE, requested |-> FALSE]
    ELSE IF ~UrlParses(art.url)
    THEN [raised |-> TRUE, art |-> art, fetched |-> TRUE, requested |-> FALSE]
    ELSE IF resp.kind # "object"
         THEN [raised |-> FALSE, art |-> [art EXCEPT !.processing_status = "failed"],
               fetched |-> TRUE, requested |-> TRUE]
         ELSE [raised |-> FALSE, art |-> ApplyResponse(art, resp),
               fetched |-> TRUE, requested |-> TRUE]

ObjectResponse(h, t, d, b, isl, tags, kw) ==
    [ kind |-> "object", headline |-> h, tldr |-> t, detailed_summary |-> d,
      bias_label |-> b, tags_is_list |-> isl, topic_tags |-> tags, keywords |-> kw ]

OtherResponse(k) ==
    [ kind |-> k, headline |-> Absent, tldr |-> Absent, detailed_summary |-> Absent,
      bias_label |-> Absent, tags_is_list |-> TRUE, topic_tags |-> {}, keywords |-> <<>> ]

OkResponse ==
    ObjectResponse("ai_headline", "ai_tldr", "ai_detailed", "Center", TRUE,
                   {"Economy"}, <<"k1", "k2">>)

\* the responses the pipeline specifications draw from
PipelineResponses == {OkResponse, OtherResponse("notjson")}

Fails(resp) == resp # OkResponse

(***************************************************************************)
(* agents.py:233-236  from the reply of the text service to `data`.        *)
(*                                                                         *)
(* A reply is [pre, body, post]: the tokens before the JSON text, the JSON *)
(* text, the tokens after it.  pre and post hold fence markers and prose;  *)
(* body is a response as above, its texts as the service wrote them.  The  *)
(* fence marker, three backquotes, is written <fence> here.                *)
(***************************************************************************)
FenceJson == "<fence>json"
Fence == "<fence>"
Prose == "Here is the JSON:"

\* a text of the service that holds fence markers of its own, and what
\* the two replace calls of line 235 leave of it
MarkedText == "Run <fence>ls<fence> now"
UnmarkedText == "Run ls now"

Reply(pre, body, post) == [pre |-> pre, body |-> body, post |-> post]

\* agents.py:235  the two replace calls on a text without markers leave it
\* as it is
ReplaceMarkers(t) == IF t = MarkedText THEN UnmarkedText ELSE t

\* agents.py:235  the two replace calls on the tokens around the JSON text
RemoveFences(tokens) == SelectSeq(tokens, LAMBDA t : t \notin {FenceJson, Fence})

\* agents.py:235  replace works on the whole reply, the texts inside the
\* JSON text included
CleanUp(reply) ==
    Reply(RemoveFences(reply.pre),
          [reply.body EXCEPT !.headline = ReplaceMarkers(@),
                             !.tldr = ReplaceMarkers(@),
                             !.detailed_summary = ReplaceMarkers(@),
                             !.bias_label = ReplaceMarkers(@),
                             !.topic_tags = {ReplaceMarkers(t) : t \in @},
                             !.keywords = [i \in DOMAIN @ |-> ReplaceMarkers(@[i])]],
          RemoveFences(reply.post))

\* agents.py:236  json.loads raises on a text that is not one JSON value
JsonLoads(content) ==
    IF content.pre # <<>> \/ content.post # <<>> \/ content.body.kind = "notjson"
    THEN OtherResponse("notjson")
    ELSE content.body

\* agents.py:233-236  generate_content raised, or the parsed reply
ParseReply(reply) ==
    IF reply.body.kind = "error" THEN reply.body ELSE JsonLoads(CleanUp(reply))

\* the ways a reply wraps its JSON text: bare, in a json fence, in a plain
\* fence, after a sentence of prose
Wrappings ==
    { <<<<>>, <<>>>>, <<<<FenceJson>>, <<Fence>>>>, <<<<Fence>>, <<Fence>>>>,
      <<<<Prose>>, <<>>>>, <<<<Prose, FenceJson>>, <<Fence>>>> }

Wrapped(bodies) ==
    {Reply(w[1], b, w[2]) : w \in Wrappings, b \in {b \in bodies : b.kind # "error"}}
    \cup {Reply(<<>>, b, <<>>) : b \in {b \in bodies : b.kind = "error"}}

(***************************************************************************)
(* State of the pipeline.                                                  *)
(***************************************************************************)
VARIABLES
    hasModel,     \* AnalystAgent.model is set (GEMINI_API_KEY configured)
    store,        \* the Firestore collection: document id -> document
    drain,        \* the process_background_queue tasks
    backfill,     \* the process_backfill_queue task
    failBudget,   \* failing analyses still allowed (-1: no limit)
    probe         \* input and result of a function applied on its own

vars == <<hasModel, store, drain, backfill, failBudget, probe>>

Drains == 1..MaxDrains

\* pc: where the task is; units: the tasks of the current batch; round: the
\* selections made so far; failed: the urls whose analysis ended failed in
\* this execution
IdleDrain == [pc |-> "idle", round |-> 0, units |-> <<>>, failed |-> {}]

\* the article in hand of a task that holds none: a record, as articles are
NoArticle == Draft(<<>>, None, 0)

\* cands: the candidates the loop has still to take; idx: the number taken;
\* art: the article in hand and was: its status as selected; outcome: how
\* its analysis ended; persisted, slept: saves and delays done in this run;
\* runs: the runs triggered so far
IdleBackfill ==
    [pc |-> "idle", cands |-> <<>>, idx |-> 0, art |-> NoArticle, was |-> "none",
     outcome |-> "none", persisted |-> 0, slept |-> 0, runs |-> 0]

NoProbe == [fn |-> "none"]

EmptyStore == <<>>

Init ==
    /\ hasModel \in BOOLEAN
    /\ store = EmptyStore
    /\ drain = [d \in Drains |-> IdleDrain]
    /\ backfill = IdleBackfill
    /\ failBudget = -1
    /\ probe = NoProbe

Spend(resp) ==
    IF Fails(resp)
    THEN failBudget # 0 /\ failBudget' = (IF failBudget > 0 THEN failBudget - 1 ELSE failBudget)
    ELSE failBudget' = failBudget

(***************************************************************************)
(* main.py  triggers                                                       *)
(***************************************************************************)
Free(d) == drain[d].pc = "idle"

\* the task slot a new trigger takes: at most MaxDrains triggers in a run
NextSlot(d) == Free(d) /\ \A e \in Drains : Free(e) => d <= e

\* save_article applied to each article of arts in turn: a document id holds
\* the last article saved under it, every other document is left as it was
SaveAll(s, arts) ==
    LET ids == {DocId(arts[i].url) : i \in DOMAIN arts}
        last(k) == CHOOSE i \in DOMAIN arts :
                      /\ DocId(arts[i].url) = k
                      /\ \A j \in DOMAIN arts : DocId(arts[j].url) = k => j <= i
    IN  [k \in (DOMAIN s) \cup ids |-> IF k \in ids THEN arts[last(k)] ELSE s[k]]

RECURSIVE SetToSeq(_)
SetToSeq(S) ==
    IF S = {} THEN <<>>
    ELSE LET x == CHOOSE x \in S : TRUE IN <<x>> \o SetToSeq(S \ {x})

\* the sets of urls one harvest can yield
HarvestYields == {SmallUrls}

\* main.py:59-79  batch_ingest: the harvest yields drafts for the urls in S,
\* each is saved, and a drain task is created
BatchIngest(d, S) ==
    /\ NextSlot(d)
    /\ store' = SaveAll(store, SetToSeq({Draft(u, "Politics", Published(u)) : u \in S}))
    /\ drain' = [drain EXCEPT ![d] = [IdleDrain EXCEPT !.pc = "scheduled"]]
    /\ UNCHANGED <<hasModel, backfill, failBudget, probe>>

\* main.py:81-87  process_queue
ProcessQueue(d) ==
    /\ NextSlot(d)
    /\ drain' = [drain EXCEPT ![d] = [IdleDrain EXCEPT !.pc = "scheduled"]]
    /\ UNCHANGED <<hasModel, store, backfill, failBudget, probe>>

\* main.py:89-95  process_backfill
ProcessBackfill ==
    /\ backfill.pc \in {"idle", "done"}
    /\ backfill.runs < MaxBackfillRuns
    /\ backfill' = [IdleBackfill EXCEPT !.pc = "scheduled", !.runs = backfill.runs + 1]
    /\ UNCHANGED <<hasModel, store, drain, failBudget, probe>>

(***************************************************************************)
(* main.py:144-195  process_background_queue                               *)
(***************************************************************************)
\* main.py:151 as the source has it: get_pending_articles (database.py:62)
\* takes no `statuses` parameter, the call raises TypeError and the task ends
DrainSelect(d) ==
    /\ drain[d].pc = "scheduled"
    /\ drain' = [drain EXCEPT ![d].pc = "crashed"]
    /\ UNCHANGED <<hasModel, store, backfill, failBudget, probe>>

NewUnits(arts) ==
    [i \in 1..Len(arts) |->
        [art |-> arts[i], st |-> "waiting", saved |-> FALSE]]

Waiting(units) == {i \in DOMAIN units : units[i].st = "waiting"}
InFlight(units) == {i \in DOMAIN units : units[i].st = "inflight"}
FirstWaiting(units) == CHOOSE i \in Waiting(units) : \A j \in Waiting(units) : i <= j

\* main.py:165-168  `async with sem`: a waiting unit enters while a permit
\* is free, in task order
Admit(units) ==
    LET free == SemPermits - Cardinality(InFlight(units))
        ahead(i) == Cardinality({j \in Waiting(units) : j < i})
    IN  [i \in DOMAIN units |->
            IF units[i].st = "waiting" /\ ahead(i) < free
            THEN [units[i] EXCEPT !.st = "inflight"]
            ELSE units[i]]

NextRound(r) == IF r < MaxRounds THEN r + 1 ELSE r

\* main.py:151-187  from the selection to the gather
StartBatch(dr, batch) ==
    IF batch = <<>>
    THEN [IdleDrain EXCEPT !.pc = "done", !.round = NextRound(dr.round)]
    ELSE [dr EXCEPT !.pc = "running",
                    !.round = NextRound(dr.round),
                    !.units = IF hasModel THEN Admit(NewUnits(batch)) ELSE NewUnits(batch)]

\* main.py:151 with a get_pending_articles that honours `statuses`
DrainSelectStatuses(d) ==
    /\ drain[d].pc = "scheduled"
    /\ drain' = [drain EXCEPT ![d] =
          StartBatch(drain[d],
                     GetPendingArticlesStatuses(store, PageLimit, {"pending", "failed"}))]
    /\ UNCHANGED <<hasModel, store, backfill, failBudget, probe>>

Finish(units, i, art, saved) ==
    Admit([units EXCEPT ![i] = [art |-> art, st |-> "done", saved |-> saved]])

\* main.py:167-176, 182-184  the page fetch returns, process_article runs to
\* its end, the result is saved and the permit released
UnitComplete(d, i, resp) ==
    /\ drain[d].pc = "running"
    /\ i \in InFlight(drain[d].units)
    /\ Spend(resp)
    /\ LET u == drain[d].units[i]
           res == ProcessArticle(hasModel, u.art, resp)
       IN  IF res.raised
           THEN /\ drain' = [drain EXCEPT ![d].units = Finish(@, i, u.art, FALSE)]
                /\ store' = store
           ELSE /\ drain' = [drain EXCEPT
                      ![d].units = Finish(@, i, res.art, TRUE),
                      ![d].failed = IF res.art.processing_status = "failed"
                                    THEN @ \cup {u.art.url} ELSE @]
                /\ store' = SaveArticle(store, res.art)
    /\ UNCHANGED <<hasModel, backfill, probe>>

\* UnitTimeout with the save of line 181 left out
UnitTimeoutNoSave(d, i) ==
    /\ drain[d].pc = "running"
    /\ i \in InFlight(drain[d].units)
    /\ failBudget # 0
    /\ failBudget' = (IF failBudget > 0 THEN failBudget - 1 ELSE failBudget)
    /\ LET u == drain[d].units[i]
           art == [u.art EXCEPT !.processing_status = "failed"]
       IN  /\ drain' = [drain EXCEPT ![d].units = Finish(@, i, art, TRUE),
                                     ![d].failed = @ \cup {art.url}]
           /\ store' = store
    /\ UNCHANGED <<hasModel, backfill, probe>>

\* main.py:177-181  the 45 s deadline passes while the page fetch is awaited
UnitTimeout(d, i) ==
    /\ drain[d].pc = "running"
    /\ i \in InFlight(drain[d].units)
    /\ failBudget # 0
    /\ failBudget' = (IF failBudget > 0 THEN failBudget - 1 ELSE failBudget)
    /\ LET u == drain[d].units[i]
           art == [u.art EXCEPT !.processing_status = "failed"]
       IN  /\ drain' = [drain EXCEPT ![d].units = Finish(@, i, art, TRUE),
                                     ![d].failed = @ \cup {art.url}]
           /\ store' = SaveArticle(store, art)
    /\ UNCHANGED <<hasModel, backfill, probe>>

\* main.py:167-176 without a model: process_article returns at once, the
\* task of a unit runs from the permit to the save without suspending
UnitNoKey(d) ==
    /\ ~hasModel
    /\ drain[d].pc = "running"
    /\ Waiting(drain[d].units) # {}
    /\ LET i == FirstWaiting(drain[d].units)
           res == ProcessArticle(hasModel, drain[d].units[i].art, OkResponse)
       IN  /\ drain' = [drain EXCEPT
                 ![d].units[i] = [art |-> res.art, st |-> "done", saved |-> TRUE],
                 ![d].failed = @ \cup {res.art.url}]
           /\ store' = SaveArticle(store, res.art)
    /\ UNCHANGED <<hasModel, backfill, failBudget, probe>>

AllDone(units) == \A i \in DOMAIN units : units[i].st = "done"

\* DrainContinue that goes on at the first finished unit, as a wait for any
\* task instead of gather would
DrainContinueEarly(d) ==
    /\ drain[d].pc = "running"
    /\ \E i \in DOMAIN drain[d].units : drain[d].units[i].st = "done"
    /\ drain' = [drain EXCEPT ![d] =
          IF Len(drain[d].units) = PageLimit
          THEN StartBatch(drain[d],
                          GetPendingArticlesStatuses(store, PageLimit, {"pending", "failed"}))
          ELSE [IdleDrain EXCEPT !.pc = "done", !.round = drain[d].round]]
    /\ UNCHANGED <<hasModel, store, backfill, failBudget, probe>>

\* main.py:187-195  gather returns; a batch of exactly 10 re-runs the drain
DrainContinue(d) ==
    /\ drain[d].pc = "running"
    /\ AllDone(drain[d].units)
    /\ drain' = [drain EXCEPT ![d] =
          IF Len(drain[d].units) = PageLimit
          THEN StartBatch(drain[d],
                          GetPendingArticlesStatuses(store, PageLimit, {"pending", "failed"}))
          ELSE [IdleDrain EXCEPT !.pc = "done", !.round = drain[d].round]]
    /\ UNCHANGED <<hasModel, store, backfill, failBudget, probe>>

(***************************************************************************)
(* main.py:97-142  process_backfill_queue                                  *)
(***************************************************************************)
\* BackfillBegin without the reset of lines 114-115
BackfillBeginKeepStatus(bf, s) ==
    IF bf.cands = <<>>
    THEN [bf |-> [IdleBackfill EXCEPT !.pc = "done", !.runs = bf.runs], store |-> s]
    ELSE LET art == Head(bf.cands)
             nxt == [bf EXCEPT !.cands = Tail(@), !.idx = @ + 1, !.was = Head(bf.cands).processing_status]
         IN  IF hasModel
             THEN [bf |-> [nxt EXCEPT !.pc = "analyzing", !.art = art, !.outcome = "none"],
                   store |-> s]
             ELSE LET res == ProcessArticle(hasModel, art, OkResponse)
                  IN  [bf |-> [nxt EXCEPT !.pc = "sleeping", !.art = res.art,
                                          !.outcome = "returned", !.persisted = @ + 1],
                       store |-> SaveArticle(s, res.art)]

\* main.py:108-125  one pass of the loop up to its first suspension; the
\* task returns when no candidate is left
BackfillBegin(bf, s) ==
    IF bf.cands = <<>>
    THEN [bf |-> [IdleBackfill EXCEPT !.pc = "done", !.runs = bf.runs], store |-> s]
    ELSE LET art == [Head(bf.cands) EXCEPT !.processing_status = "pending"]
             nxt == [bf EXCEPT !.cands = Tail(@), !.idx = @ + 1, !.was = Head(bf.cands).processing_status]
         IN  IF hasModel
             THEN [bf |-> [nxt EXCEPT !.pc = "analyzing", !.art = art, !.outcome = "none"],
                   store |-> s]
             ELSE LET res == ProcessArticle(hasModel, art, OkResponse)
                  IN  [bf |-> [nxt EXCEPT !.pc = "sleeping", !.art = res.art,
                                          !.outcome = "returned", !.persisted = @ + 1],
                       store |-> SaveArticle(s, res.art)]

\* main.py:105-108
BackfillSelect ==
    /\ backfill.pc = "scheduled"
    /\ LET bf == [backfill EXCEPT !.cands = GetBackfillCandidates(store, BackfillLimit)]
           nxt == BackfillBegin(bf, store)
       IN  backfill' = nxt.bf /\ store' = nxt.store
    /\ UNCHANGED <<hasModel, drain, failBudget, probe>>

\* main.py:121-126, 131-134  process_article ends; its result, or the
\* article marked failed when it raised, is saved
BackfillComplete(resp) ==
    /\ backfill.pc = "analyzing"
    /\ Spend(resp)
    /\ LET res == ProcessArticle(hasModel, backfill.art, resp)
           art == IF res.raised
                  THEN [backfill.art EXCEPT !.processing_status = "failed"]
                  ELSE res.art
       IN  /\ backfill' = [backfill EXCEPT
                 !.pc = "sleeping", !.art = art,
                 !.outcome = IF res.raised THEN "raised" ELSE "returned",
                 !.persisted = @ + 1]
           /\ store' = SaveArticle(store, art)
    /\ UNCHANGED <<hasModel, drain, probe>>

\* main.py:127-130  the 30 s deadline passes while the page fetch is awaited
BackfillTimeout ==
    /\ backfill.pc = "analyzing"
    /\ failBudget # 0
    /\ failBudget' = (IF failBudget > 0 THEN failBudget - 1 ELSE failBudget)
    /\ LET art == [backfill.art EXCEPT !.processing_status = "failed"]
       IN  /\ backfill' = [backfill EXCEPT !.pc = "sleeping", !.art = art,
                                           !.outcome = "timeout", !.persisted = @ + 1]
           /\ store' = SaveArticle(store, art)
    /\ UNCHANGED <<hasModel, drain, probe>>

\* main.py:137  asyncio.sleep(2) returns and the loop takes the next candidate
BackfillWake ==
    /\ backfill.pc = "sleeping"
    /\ LET bf == [backfill EXCEPT !.slept = @ + 1]
           nxt == BackfillBegin(bf, store)
       IN  backfill' = nxt.bf /\ store' = nxt.store
    /\ UNCHANGED <<hasModel, drain, failBudget, probe>>

(***************************************************************************)
(* Specifications.                                                         *)
(***************************************************************************)
Triggers ==
    \/ \E d \in Drains, S \in HarvestYields : BatchIngest(d, S)
    \/ \E d \in Drains : ProcessQueue(d)
    \/ ProcessBackfill

BackfillSteps ==
    \/ BackfillSelect
    \/ \E resp \in PipelineResponses : BackfillComplete(resp)
    \/ BackfillTimeout
    \/ BackfillWake

DrainSteps ==
    \/ \E d \in Drains : DrainSelectStatuses(d)
    \/ \E d \in Drains, i \in 1..PageLimit, resp \in PipelineResponses : UnitComplete(d, i, resp)
    \/ \E d \in Drains, i \in 1..PageLimit : UnitTimeout(d, i)
    \/ \E d \in Drains : UnitNoKey(d)
    \/ \E d \in Drains : DrainContinue(d)

\* the program as the source has it
Next ==
    \/ Triggers
    \/ \E d \in Drains : DrainSelect(d)
    \/ BackfillSteps

Spec == Init /\ [][Next]_vars

\* the program with the selection main.py:151 asks for
NextStatuses ==
    \/ Triggers
    \/ DrainSteps
    \/ BackfillSteps

SpecStatuses == Init /\ [][NextStatuses]_vars

(***************************************************************************)
(* Two process_backfill requests close together: BackgroundTasks starts a  *)
(* process_backfill_queue task for each, and both run on the event loop.   *)
(* The second task is kept in probe.task; its steps are those of the       *)
(* first.                                                                  *)
(***************************************************************************)
InitOverlap ==
    /\ hasModel \in BOOLEAN
    /\ store = EmptyStore
    /\ drain = [d \in Drains |-> IdleDrain]
    /\ backfill = IdleBackfill
    /\ failBudget = -1
    /\ probe = [fn |-> "process_backfill_queue", task |-> IdleBackfill]

\* main.py:89-95  process_backfill while the task of an earlier request runs
OtherProcessBackfill ==
    /\ probe.task.pc = "idle"
    /\ backfill.pc \notin {"idle", "done"}
    /\ probe' = [probe EXCEPT !.task = [IdleBackfill EXCEPT !.pc = "scheduled", !.runs = 1]]
    /\ UNCHANGED <<hasModel, store, drain, backfill, failBudget>>

\* main.py:105-108
OtherBackfillSelect ==
    /\ probe.task.pc = "scheduled"
    /\ LET bf == [probe.task EXCEPT !.cands = GetBackfillCandidates(store, BackfillLimit)]
           nxt == BackfillBegin(bf, store)
       IN  probe' = [probe EXCEPT !.task = nxt.bf] /\ store' = nxt.store
    /\ UNCHANGED <<hasModel, drain, backfill, failBudget>>

\* main.py:121-126, 131-134
OtherBackfillComplete(resp) ==
    /\ probe.task.pc = "analyzing"
    /\ Spend(resp)
    /\ LET res == ProcessArticle(hasModel, probe.task.art, resp)
           art == IF res.raised
                  THEN [probe.task.art EXCEPT !.processing_status = "failed"]
                  ELSE res.art
       IN  /\ probe' = [probe EXCEPT !.task =
                 [probe.task EXCEPT
                    !.pc = "sleeping", !.art = art,
                    !.outcome = IF res.raised THEN "raised" ELSE "returned",
                    !.persisted = @ + 1]]
           /\ store' = SaveArticle(store, art)
    /\ UNCHANGED <<hasModel, drain, backfill>>

\* main.py:127-130
OtherBackfillTimeout ==
    /\ probe.task.pc = "analyzing"
    /\ failBudget # 0
    /\ failBudget' = (IF failBudget > 0 THEN failBudget - 1 ELSE failBudget)
    /\ LET art == [probe.task.art EXCEPT !.processing_status = "failed"]
       IN  /\ probe' = [probe EXCEPT !.task =
                 [probe.task EXCEPT !.pc = "sleeping", !.art = art,
                                    !.outcome = "timeout", !.persisted = @ + 1]]
           /\ store' = SaveArticle(store, art)
    /\ UNCHANGED <<hasModel, drain, backfill>>

\* main.py:137
OtherBackfillWake ==
    /\ probe.task.pc = "sleeping"
    /\ LET bf == [probe.task EXCEPT !.slept = @ + 1]
           nxt == BackfillBegin(bf, store)
       IN  probe' = [probe EXCEPT !.task = nxt.bf] /\ store' = nxt.store
    /\ UNCHANGED <<hasModel, drain, backfill, failBudget>>

OtherBackfillSteps ==
    \/ OtherProcessBackfill
    \/ OtherBackfillSelect
    \/ \E resp \in PipelineResponses : OtherBackfillComplete(resp)
    \/ OtherBackfillTimeout
    \/ OtherBackfillWake

\* the triggers and tasks of Next with probe left to the second task
NextOverlap ==
    \/ \E d \in Drains, S \in HarvestYields : BatchIngest(d, S)
    \/ \E d \in Drains : ProcessQueue(d)
    \/ ProcessBackfill
    \/ \E d \in Drains : DrainSelect(d)
    \/ BackfillSteps
    \/ OtherBackfillSteps

SpecOverlap == InitOverlap /\ [][NextOverlap]_vars

\* the store after a harvest that yielded n drafts (at most 12 per category,
\* agents.py:26), its drain task created and no other trigger
FullStore(n) ==
    SaveAll(EmptyStore, [i \in 1..n |-> Draft(Url(i), "Politics", Published(Url(i)))])

InitFullPage ==
    /\ hasModel \in BOOLEAN
    /\ \E n \in PageLimit..(PageLimit + ExtraUrls) : store = FullStore(n)
    /\ drain = [d \in Drains |->
                  IF d = 1 THEN [IdleDrain EXCEPT !.pc = "scheduled"] ELSE IdleDrain]
    /\ backfill = IdleBackfill
    /\ failBudget = MaxFailures
    /\ probe = NoProbe

NextFullPage == DrainSteps

SpecFullPage == InitFullPage /\ [][NextFullPage]_vars

\* the same run with no limit on the failing analyses.  Every url has a
\* fate: the analysis of a url in `failing` fails or times out whenever it
\* is made (a page the service cannot summarise), that of another url
\* succeeds.
FateSets ==
    { {}, {Url(1)}, {Url(n) : n \in 1..PageLimit},
      {Url(n) : n \in 1..(PageLimit + ExtraUrls)} }

InitDrainLive ==
    /\ hasModel \in BOOLEAN
    /\ \E n \in PageLimit..(PageLimit + ExtraUrls) : store = FullStore(n)
    /\ drain = [d \in Drains |->
                  IF d = 1 THEN [IdleDrain EXCEPT !.pc = "scheduled"] ELSE IdleDrain]
    /\ backfill = IdleBackfill
    /\ failBudget = -1
    /\ probe \in {[fn |-> "fates", failing |-> S] : S \in FateSets}

UnitCompleteFated(d, i) ==
    UnitComplete(d, i, IF drain[d].units[i].art.url \in probe.failing
                       THEN OtherResponse("notjson") ELSE OkResponse)

UnitTimeoutFated(d, i) ==
    /\ drain[d].units[i].art.url \in probe.failing
    /\ UnitTimeout(d, i)

NextDrainLive ==
    \/ \E d \in Drains : DrainSelectStatuses(d)
    \/ \E d \in Drains : \E i \in DOMAIN drain[d].units : UnitCompleteFated(d, i)
    \/ \E d \in Drains : \E i \in DOMAIN drain[d].units : UnitTimeoutFated(d, i)
    \/ \E d \in Drains : UnitNoKey(d)
    \/ \E d \in Drains : DrainContinue(d)

\* the event loop runs every task that is ready and every deadline that has
\* passed, so a step that stays enabled is taken
SpecDrainLive == InitDrainLive /\ [][NextDrainLive]_vars /\ WF_vars(NextDrainLive)

(***************************************************************************)
(* process_article applied on its own to an article and a response.        *)
(***************************************************************************)
\* an article as a drain or a backfill hands it over: a draft, or an
\* article enriched before, with status pending or failed
ProbeArticles ==
    LET drafts == {Draft(u, "Politics", 0) : u \in {Url(1), BadUrl}}
        bases == drafts \cup {ApplyResponse(a, OkResponse) : a \in drafts}
    IN  {[a EXCEPT !.processing_status = st] : a \in bases, st \in {"pending", "failed"}}

ProbeResponses ==
    {OtherResponse(k) : k \in {"error", "notjson", "notobject"}}
    \cup {ObjectResponse(h, t, d, b, isl, tags, kw) :
            h \in {Absent, "ai_headline"}, t \in {Absent, "ai_tldr"},
            d \in {Absent, "ai_short", "ai_detailed"},
            b \in {Absent, "Center", "Left", "Neutral"},
            isl \in BOOLEAN, tags \in {{}, {"Economy"}},
            kw \in {<<>>, <<"k1", "k2">>}}

InitAnalyst ==
    /\ hasModel \in BOOLEAN
    /\ store = EmptyStore
    /\ drain = [d \in Drains |-> IdleDrain]
    /\ backfill = IdleBackfill
    /\ failBudget = -1
    /\ probe \in {[fn |-> "process_article", art |-> a, resp |-> r, done |-> FALSE,
                   raised |-> FALSE, out |-> a, fetched |-> FALSE,
                   requested |-> FALSE] :
                     a \in ProbeArticles, r \in ProbeResponses}

ProbeProcessArticle ==
    /\ probe.fn = "process_article"
    /\ ~probe.done
    /\ LET res == ProcessArticle(hasModel, probe.art, probe.resp)
       IN  probe' = [probe EXCEPT !.done = TRUE, !.raised = res.raised, !.out = res.art,
                                  !.fetched = res.fetched,
                                  !.requested = res.requested]
    /\ UNCHANGED <<hasModel, store, drain, backfill, failBudget>>

SpecAnalyst == InitAnalyst /\ [][ProbeProcessArticle]_vars

(***************************************************************************)
(* process_article applied on its own to an article and a reply text.      *)
(***************************************************************************)
ProbeReplies == Wrapped(ProbeResponses)

InitReply ==
    /\ hasModel = TRUE
    /\ store = EmptyStore
    /\ drain = [d \in Drains |-> IdleDrain]
    /\ backfill = IdleBackfill
    /\ failBudget = -1
    /\ probe \in {[fn |-> "process_article_reply", art |-> a, reply |-> r,
                   done |-> FALSE, raised |-> FALSE, out |-> a, requested |-> FALSE] :
                     a \in ProbeArticles, r \in ProbeReplies}

ProbeProcessReply ==
    /\ probe.fn = "process_article_reply"
    /\ ~probe.done
    /\ LET res == ProcessArticle(hasModel, probe.art, ParseReply(probe.reply))
       IN  probe' = [probe EXCEPT !.done = TRUE, !.raised = res.raised, !.out = res.art,
                                  !.requested = res.requested]
    /\ UNCHANGED <<hasModel, store, drain, backfill, failBudget>>

SpecReply == InitReply /\ [][ProbeProcessReply]_vars

(***************************************************************************)
(* A drain over a store of harvested drafts, the text service replying     *)
(* with texts.                                                             *)
(***************************************************************************)
EnrichBodies ==
    {OtherResponse(k) : k \in {"error", "notjson", "notobject"}}
    \cup {ObjectResponse("ai_headline", t, "ai_detailed", b, TRUE, {"Economy"},
                         <<"k1", "k2">>) :
            t \in {"ai_tldr", MarkedText}, b \in {"Left", "Neutral", Absent}}

EnrichReplies == Wrapped(EnrichBodies)

\* the stores a harvest leaves: one draft, or two of different categories
EnrichStores ==
    { SaveAll(EmptyStore, <<Draft(Url(1), "Politics", Published(Url(1)))>>),
      SaveAll(EmptyStore, <<Draft(Url(1), "Politics", Published(Url(1))),
                            Draft(Url(2), "Economy", Published(Url(2)))>>) }

InitEnrich ==
    /\ hasModel = TRUE
    /\ store \in EnrichStores
    /\ drain = [d \in Drains |->
                  IF d = 1 THEN [IdleDrain EXCEPT !.pc = "scheduled"] ELSE IdleDrain]
    /\ backfill = IdleBackfill
    /\ failBudget = -1
    /\ probe = NoProbe

\* main.py:167-176 with the reply of generate_content as a text
UnitCompleteReply(d, i, reply) == UnitComplete(d, i, ParseReply(reply))

NextEnrich ==
    \/ \E d \in Drains : ProcessQueue(d)
    \/ \E d \in Drains : DrainSelectStatuses(d)
    \/ \E d \in Drains : \E i \in DOMAIN drain[d].units, reply \in EnrichReplies :
          UnitCompleteReply(d, i, reply)
    \/ \E d \in Drains : \E i \in DOMAIN drain[d].units : UnitTimeout(d, i)
    \/ \E d \in Drains : DrainContinue(d)

SpecEnrich == InitEnrich /\ [][NextEnrich]_vars

(***************************************************************************)
(* get_backfill_candidates applied on its own to a store and a limit.      *)
(***************************************************************************)
\* a stored article: a draft, or an article analysed before whose
\* detailed_summary and keywords are as given
Doc(n, st, created, detailed, kw) ==
    [Draft(Url(n), "Politics", created) EXCEPT
        !.processing_status = st, !.detailed_summary = detailed, !.keywords = kw]

DocChoices(n) ==
    {Doc(n, st, c, None, <<>>) : st \in {"pending", "failed"}, c \in {0, 1}}
    \cup {Doc(n, "processed", c, d, kw) :
            c \in {0, 1},
            d \in {None, "ai_short", "ai_detailed"}, kw \in {<<>>, <<"k1">>}}

SmallStores ==
    LET opt(n) == {<<>>} \cup {SaveArticle(EmptyStore, a) : a \in DocChoices(n)}
    IN  {x[1] @@ x[2] @@ x[3] : x \in opt(1) \X opt(2) \X opt(3)}

\* stores with more documents than the recent window: document n was
\* created at time n, so the first ExtraUrls documents lie outside the
\* window; the oldest has status st1, the others are fully processed but
\* for one failed and one pending document inside the window
BigStores ==
    LET doc(n, st1, st2) ==
            IF n = 1 THEN Doc(n, st1, n, None, <<>>)
            ELSE IF n = MaxIdx - 1 THEN Doc(n, "failed", n, None, <<>>)
            ELSE IF n = MaxIdx THEN Doc(n, st2, n, None, <<>>)
            ELSE Doc(n, "processed", n, "ai_detailed", <<"k1">>)
    IN  {[id \in {DocId(Url(n)) : n \in 1..MaxIdx} |->
            doc(CHOOSE n \in 1..MaxIdx : DocId(Url(n)) = id, st1, st2)] :
         st1 \in {"pending", "failed"}, st2 \in {"pending", "processed"}}

ProbeLimits == {1, 2, 3, BackfillLimit}

InitSelect ==
    /\ hasModel = TRUE
    /\ store \in SmallStores \cup BigStores
    /\ drain = [d \in Drains |-> IdleDrain]
    /\ backfill = IdleBackfill
    /\ failBudget = -1
    /\ probe \in {[fn |-> "get_backfill_candidates", limit |-> l, done |-> FALSE,
                   out |-> <<>>, again |-> FALSE, out2 |-> <<>>] : l \in ProbeLimits}

\* a selection that marks what it returns as failed, so that no other run
\* takes it
ProbeBackfillCandidatesClaiming ==
    /\ probe.fn = "get_backfill_candidates"
    /\ ~probe.done
    /\ LET out == GetBackfillCandidates(store, probe.limit)
       IN  /\ probe' = [probe EXCEPT !.done = TRUE, !.out = out]
           /\ store' = SaveAll(store, [i \in DOMAIN out |->
                                         [out[i] EXCEPT !.processing_status = "failed"]])
    /\ UNCHANGED <<hasModel, drain, backfill, failBudget>>

ProbeBackfillCandidates ==
    /\ probe.fn = "get_backfill_candidates"
    /\ ~probe.done
    /\ probe' = [probe EXCEPT !.done = TRUE,
                              !.out = GetBackfillCandidates(store, probe.limit)]
    /\ UNCHANGED <<hasModel, store, drain, backfill, failBudget>>

\* a second call with the same limit, no write in between
ProbeBackfillAgain ==
    /\ probe.fn = "get_backfill_candidates"
    /\ probe.done
    /\ ~probe.again
    /\ probe' = [probe EXCEPT !.again = TRUE,
                              !.out2 = GetBackfillCandidates(store, probe.limit)]
    /\ UNCHANGED <<hasModel, store, drain, backfill, failBudget>>

SpecSelect == InitSelect /\ [][ProbeBackfillCandidates \/ ProbeBackfillAgain]_vars

(***************************************************************************)
(* agents.py  HarvesterAgent.fetch_new_articles                            *)
(* tools.py   fetch_rss_articles (the same loops, yielding dicts)          *)
(*                                                                         *)
(* feeds is a sequence of [category, urls]; a source of urls is            *)
(* [fails, entries]: feedparser.parse raised, or the entries it returned.  *)
(* An entry is [link, title, date, time]: date is "none" when the entry    *)
(* has neither published_parsed nor updated_parsed, "invalid" when         *)
(* the datetime constructor of line 52 raises, else "valid" with time the *)
(* publish time in hours.                                                  *)
(***************************************************************************)
CutoffHours == 48       \* agents.py:23
MaxPerCategory == 12    \* agents.py:26
HarvestNow == 100       \* datetime.utcnow() when the run starts, in hours

CutoffTime == HarvestNow - CutoffHours

Entry(link, title, date, time) ==
    [link |-> link, title |-> title, date |-> date, time |-> time]

EmptyHarvest == [accepted |-> <<>>, examined |-> {}, fetched |-> <<>>]

\* the entries a category has had accepted so far
CategoryCount(h, c) == Cardinality({i \in DOMAIN h.accepted : h.accepted[i][1] = c})

\* the loop of ScanEntries with > for the >= of line 55
RECURSIVE ScanEntriesStrict(_, _, _, _, _)
ScanEntriesStrict(feeds, c, u, e, h) ==
    LET entries == feeds[c].urls[u].entries
        entry == entries[e]
    IN  IF e > Len(entries) \/ CategoryCount(h, c) >= MaxPerCategory THEN h
        ELSE IF entry.date = "none" THEN ScanEntriesStrict(feeds, c, u, e + 1, h)
        ELSE IF entry.date = "invalid" THEN h
        ELSE LET seen == [h EXCEPT !.examined = @ \cup {<<c, u, e>>}]
             IN  IF entry.time > CutoffTime /\ entry.link # <<>> /\ entry.title # ""
                 THEN ScanEntriesStrict(feeds, c, u, e + 1,
                                        [seen EXCEPT !.accepted = Append(@, <<c, u, e>>)])
                 ELSE ScanEntriesStrict(feeds, c, u, e + 1, seen)

\* agents.py:42-75  the loop over feed.entries, from entry e on; it ends at
\* the cap, at the last entry, or where an entry raises (caught at line 76)
RECURSIVE ScanEntries(_, _, _, _, _)
ScanEntries(feeds, c, u, e, h) ==
    LET entries == feeds[c].urls[u].entries
        entry == entries[e]
    IN  IF e > Len(entries) \/ CategoryCount(h, c) >= MaxPerCategory THEN h
        ELSE IF entry.date = "none" THEN ScanEntries(feeds, c, u, e + 1, h)
        ELSE IF entry.date = "invalid" THEN h
        ELSE LET seen == [h EXCEPT !.examined = @ \cup {<<c, u, e>>}]
             IN  IF entry.time >= CutoffTime /\ entry.link # <<>> /\ entry.title # ""
                 THEN ScanEntries(feeds, c, u, e + 1,
                                  [seen EXCEPT !.accepted = Append(@, <<c, u, e>>)])
                 ELSE ScanEntries(feeds, c, u, e + 1, seen)

\* the loop of ScanSources that goes on to the next category when a source
\* raises
RECURSIVE ScanSourcesAbortCategory(_, _, _, _)
ScanSourcesAbortCategory(feeds, c, u, h) ==
    IF u > Len(feeds[c].urls) \/ CategoryCount(h, c) >= MaxPerCategory THEN h
    ELSE LET src == feeds[c].urls[u]
             got == [h EXCEPT !.fetched = Append(@, <<c, u>>)]
         IN  IF src.fails THEN got
             ELSE ScanSourcesAbortCategory(feeds, c, u + 1, ScanEntries(feeds, c, u, 1, got))

\* the loop of ScanSources without the test of lines 34-35
RECURSIVE ScanSourcesNoCap(_, _, _, _)
ScanSourcesNoCap(feeds, c, u, h) ==
    IF u > Len(feeds[c].urls) THEN h
    ELSE LET src == feeds[c].urls[u]
             got == [h EXCEPT !.fetched = Append(@, <<c, u>>)]
         IN  IF src.fails THEN ScanSourcesNoCap(feeds, c, u + 1, got)
             ELSE ScanSourcesNoCap(feeds, c, u + 1, ScanEntries(feeds, c, u, 1, got))

\* agents.py:33-77  the loop over the sources of a category, from source u on
RECURSIVE ScanSources(_, _, _, _)
ScanSources(feeds, c, u, h) ==
    IF u > Len(feeds[c].urls) \/ CategoryCount(h, c) >= MaxPerCategory THEN h
    ELSE LET src == feeds[c].urls[u]
             got == [h EXCEPT !.fetched = Append(@, <<c, u>>)]
         IN  IF src.fails THEN ScanSources(feeds, c, u + 1, got)
             ELSE ScanSources(feeds, c, u + 1, ScanEntries(feeds, c, u, 1, got))

\* agents.py:29-79  the loop over the categories, from category c on
RECURSIVE ScanCategories(_, _, _)
ScanCategories(feeds, c, h) ==
    IF c > Len(feeds) THEN h
    ELSE ScanCategories(feeds, c + 1, ScanSources(feeds, c, 1, h))

HarvestRun(feeds) == ScanCategories(feeds, 1, EmptyHarvest)

EntryAt(feeds, a) == feeds[a[1]].urls[a[2]].entries[a[3]]

\* the drafts with the time of the run as created_at
FetchNewArticlesHarvestTime(feeds) ==
    LET h == HarvestRun(feeds)
    IN  [i \in DOMAIN h.accepted |->
            LET entry == EntryAt(feeds, h.accepted[i])
            IN  [Draft(entry.link, feeds[h.accepted[i][1]].category, HarvestNow)
                    EXCEPT !.headline = entry.title]]

\* agents.py:16-82  the drafts, in the order they were accepted
FetchNewArticles(feeds) ==
    LET h == HarvestRun(feeds)
    IN  [i \in DOMAIN h.accepted |->
            LET entry == EntryAt(feeds, h.accepted[i])
            IN  [Draft(entry.link, feeds[h.accepted[i][1]].category, entry.time)
                    EXCEPT !.headline = entry.title]]

\* tools.py:13-69  the dicts, in the order they were accepted
FetchRssArticles(feeds) ==
    LET h == HarvestRun(feeds)
    IN  [i \in DOMAIN h.accepted |->
            LET entry == EntryAt(feeds, h.accepted[i])
            IN  [url |-> entry.link, headline |-> entry.title, summary |-> "rss_summary",
                 topic_tags |-> {feeds[h.accepted[i][1]].category},
                 created_at |-> entry.time]]

(***************************************************************************)
(* The harvest applied on its own to feeds.                                *)
(***************************************************************************)
EntryKinds ==
    { Entry(Url(1), "rss_title", "valid", CutoffTime + 1),
      Entry(Url(2), "rss_title", "valid", CutoffTime),
      Entry(Url(3), "rss_title", "valid", CutoffTime - 1),
      Entry(Url(4), "rss_title", "none", 0),
      Entry(Url(5), "rss_title", "invalid", 0),
      Entry(<<>>, "rss_title", "valid", CutoffTime + 1),
      Entry(Url(6), "", "valid", CutoffTime + 1) }

Source(fails, entries) == [fails |-> fails, entries |-> entries]

SmallSources ==
    {Source(TRUE, <<>>)}
    \cup {Source(FALSE, es) : es \in UNION {[1..n -> EntryKinds] : n \in 0..MaxEntries}}

\* a source with n recent entries, each with a url of its own
LongSource(n) ==
    Source(FALSE, [i \in 1..n |-> Entry(Url(10 + i), "rss_title", "valid", CutoffTime + 1)])

LastSources ==
    { Source(TRUE, <<>>), Source(FALSE, <<>>),
      Source(FALSE, <<Entry(Url(1), "rss_title", "valid", CutoffTime + 1)>>),
      Source(FALSE, <<Entry(Url(7), "rss_title", "valid", CutoffTime)>>) }

SmallFeeds ==
    { << [category |-> "Politics", urls |-> <<a, b>>],
         [category |-> "World", urls |-> <<c>>] >> :
        a \in SmallSources, b \in SmallSources, c \in LastSources }

\* feeds whose first category has more recent entries than the cap
LongFeeds ==
    { << [category |-> "Politics", urls |-> <<LongSource(n), b, c>>],
         [category |-> "World", urls |-> <<c>>] >> :
        n \in (MaxPerCategory - 1)..(MaxPerCategory + ExtraEntries),
        b \in { Source(TRUE, <<>>),
                Source(FALSE, << Entry(Url(1), "rss_title", "valid", CutoffTime + 1),
                                 Entry(Url(2), "rss_title", "valid", CutoffTime) >>) },
        c \in LastSources }

\* feeds whose first source has entries that are rejected (no link, no
\* title, no date, too old) before its recent entries
MixedFeeds ==
    { << [category |-> "Politics",
          urls |-> << Source(FALSE,
                             << Entry(<<>>, "rss_title", "valid", CutoffTime + 1),
                                Entry(Url(6), "", "valid", CutoffTime + 1),
                                Entry(Url(4), "rss_title", "none", 0),
                                Entry(Url(3), "rss_title", "valid", CutoffTime - 1) >>
                             \o LongSource(n).entries),
                      Source(FALSE, << Entry(Url(1), "rss_title", "valid", CutoffTime + 1),
                                       Entry(Url(2), "rss_title", "valid", CutoffTime) >>) >>],
         [category |-> "World", urls |-> <<c>>] >> :
        n \in (MaxPerCategory - 1)..(MaxPerCategory + ExtraEntries), c \in LastSources }

InitHarvest ==
    /\ hasModel = TRUE
    /\ store = EmptyStore
    /\ drain = [d \in Drains |-> IdleDrain]
    /\ backfill = IdleBackfill
    /\ failBudget = -1
    /\ probe \in {[fn |-> "fetch_new_articles", feeds |-> f, done |-> FALSE,
                   run |-> EmptyHarvest, articles |-> <<>>, dicts |-> <<>>] :
                     f \in SmallFeeds \cup LongFeeds \cup MixedFeeds}

ProbeFetchNewArticles ==
    /\ probe.fn = "fetch_new_articles"
    /\ ~probe.done
    /\ probe' = [probe EXCEPT !.done = TRUE,
                              !.run = HarvestRun(probe.feeds),
                              !.articles = FetchNewArticles(probe.feeds),
                              !.dicts = FetchRssArticles(probe.feeds)]
    /\ UNCHANGED <<hasModel, store, drain, backfill, failBudget>>

SpecHarvest == InitHarvest /\ [][ProbeFetchNewArticles]_vars

(***************************************************************************)
(* tools.py   scrape_article_content                                       *)
(* agents.py  AnalystAgent.process_article, lines 137-175                  *)
(*                                                                         *)
(* A text is a sequence of characters.  A fetch is [raises, content]:      *)
(* requests.get or the parsing raised, or content is the paragraph text    *)
(* joined after the markup is removed.                                     *)
(***************************************************************************)
ScrapeBudget == 5000    \* tools.py:92
MinScraped == 200       \* tools.py:97
MinText == 50           \* agents.py:177

\* tools.py:75-80, agents.py:125-135
BlockingPhrases ==
    << <<"e", "n", "a", "b", "l", "e", " ", "j", "a", "v", "a", "s", "c",
       "r", "i", "p", "t">>,
       <<"d", "i", "s", "a", "b", "l", "e", " ", "a", "d", " ", "b", "l",
       "o", "c", "k", "e", "r">>,
       <<"t", "u", "r", "n", " ", "o", "f", "f", " ", "y", "o", "u", "r",
       " ", "a", "d", " ", "b", "l", "o", "c", "k", "e", "r">>,
       <<"s", "u", "b", "s", "c", "r", "i", "b", "e", " ", "t", "o", " ",
       "r", "e", "a", "d">>,
       <<"s", "u", "b", "s", "c", "r", "i", "p", "t", "i", "o", "n", " ",
       "r", "e", "q", "u", "i", "r", "e", "d">>,
       <<"s", "i", "g", "n", " ", "i", "n", " ", "t", "o", " ", "c", "o",
       "n", "t", "i", "n", "u", "e">>,
       <<"y", "o", "u", " ", "h", "a", "v", "e", " ", "r", "e", "a", "c",
       "h", "e", "d", " ", "y", "o", "u", "r", " ", "l", "i", "m", "i",
       "t">>,
       <<"a", "c", "c", "e", "s", "s", " ", "t", "o", " ", "t", "h", "i",
       "s", " ", "c", "o", "n", "t", "e", "n", "t", " ", "i", "s", " ",
       "r", "e", "s", "t", "r", "i", "c", "t", "e", "d">>,
       <<"p", "l", "e", "a", "s", "e", " ", "e", "n", "a", "b", "l", "e",
       " ", "c", "o", "o", "k", "i", "e", "s">> >>

UpperCase == <<"A", "B", "C", "D", "E", "F", "G", "H", "I", "J", "K", "L",
             "M", "N", "O", "P", "Q", "R", "S", "T", "U", "V", "W", "X",
             "Y", "Z">>
LowerCase == <<"a", "b", "c", "d", "e", "f", "g", "h", "i", "j", "k", "l",
             "m", "n", "o", "p", "q", "r", "s", "t", "u", "v", "w", "x",
             "y", "z">>

\* str.lower() on the characters of the texts
LowerChar(ch) ==
    IF \E i \in DOMAIN UpperCase : UpperCase[i] = ch
    THEN LowerCase[CHOOSE i \in DOMAIN UpperCase : UpperCase[i] = ch]
    ELSE ch

Lower(t) == [i \in DOMAIN t |-> LowerChar(t[i])]

\* phrase in text
IsSubstring(phrase, t) ==
    \E i \in 1..(Len(t) - Len(phrase) + 1) :
        \A k \in DOMAIN phrase : t[i + k - 1] = phrase[k]

\* scrape_article_content comparing the text as it is, without lower()
ScrapeArticleContentCaseSensitive(fetch, fallback_summary) ==
    IF fetch.raises THEN fallback_summary
    ELSE LET text == Take(fetch.content, ScrapeBudget)
             is_blocked ==
                 IF Len(text) < MinScraped THEN TRUE
                 ELSE \E p \in DOMAIN BlockingPhrases : IsSubstring(BlockingPhrases[p], text)
         IN  IF is_blocked THEN fallback_summary ELSE text

\* tools.py:71-113
ScrapeArticleContent(fetch, fallback_summary) ==
    IF fetch.raises THEN fallback_summary
    ELSE LET text == Take(fetch.content, ScrapeBudget)
             text_lower == Lower(text)
             is_blocked ==
                 IF Len(text) < MinScraped THEN TRUE
                 ELSE \E p \in DOMAIN BlockingPhrases :
                         IsSubstring(BlockingPhrases[p], text_lower)
         IN  IF is_blocked THEN fallback_summary ELSE text

\* agents.py:141-154  fetch_text: "" when anything raises
FetchText(fetch) == IF fetch.raises THEN <<>> ELSE Take(fetch.content, ScrapeBudget)

\* agents.py:137-175  the text after the try block
AnalystScrape(fetch, summary) ==
    LET text == FetchText(fetch)
        text_lower == Lower(text)
        is_blocked ==
            IF Len(text) < MinScraped THEN TRUE
            ELSE \E p \in DOMAIN BlockingPhrases :
                    IsSubstring(BlockingPhrases[p], text_lower)
    IN  IF is_blocked THEN summary ELSE text

\* the text of the prompt without the rung of headline and summary
AnalystTextNoHeadline(fetch, headline, summary) == AnalystScrape(fetch, summary)

\* agents.py:177-178  the text the prompt is built from
AnalystText(fetch, headline, summary) ==
    LET text == AnalystScrape(fetch, summary)
    IN  IF text = <<>> \/ Len(text) < MinText
        THEN headline \o <<".", " ">> \o summary
        ELSE text

PromptBudget == 4000    \* agents.py:218

\* agents.py:218  {text[:4000]}: the article text of the prompt
PromptText(fetch, headline, summary) ==
    Take(AnalystText(fetch, headline, summary), PromptBudget)

(***************************************************************************)
(* The scraping applied on its own to a fetch and a fallback text.         *)
(***************************************************************************)
Pad(n) == [i \in 1..n |-> "x"]

UpperChar(ch) ==
    IF \E i \in DOMAIN LowerCase : LowerCase[i] = ch
    THEN UpperCase[CHOOSE i \in DOMAIN LowerCase : LowerCase[i] = ch]
    ELSE ch

\* a phrase as a page can spell it: as it is, in capitals, with a capital
\* first letter, and with its first letter missing
Spellings(phrase) ==
    { phrase,
      [i \in DOMAIN phrase |-> UpperChar(phrase[i])],
      [i \in DOMAIN phrase |-> IF i = 1 THEN UpperChar(phrase[i]) ELSE phrase[i]],
      [i \in DOMAIN phrase |-> IF i = 1 THEN "#" ELSE phrase[i]] }

PageBodies == {<<>>} \cup UNION {Spellings(BlockingPhrases[p]) : p \in DOMAIN BlockingPhrases}

\* a text of n characters with the body after its third character
Page(n, body) == Pad(3) \o body \o Pad(n - 3 - Len(body))

ShortPages ==
    {Page(n, body) : n \in (MinScraped - 1)..(MinScraped + ExtraChars), body \in PageBodies}

\* pages longer than the budget: without a phrase, with a phrase that ends
\* with the budget, and with a phrase that the budget cuts
LongPages ==
    LET phrase == BlockingPhrases[1]
    IN  { Pad(ScrapeBudget + Len(phrase)),
          Pad(ScrapeBudget - Len(phrase)) \o phrase \o Pad(Len(phrase)),
          Pad(ScrapeBudget - Len(phrase) + ExtraChars) \o phrase \o Pad(Len(phrase)) }

Fallbacks == {<<>>, <<"r", "s", "s">>}

InitScrape ==
    /\ hasModel = TRUE
    /\ store = EmptyStore
    /\ drain = [d \in Drains |-> IdleDrain]
    /\ backfill = IdleBackfill
    /\ failBudget = -1
    /\ probe \in {[fn |-> "scrape_article_content",
                   fetch |-> [raises |-> r, content |-> c], fallback |-> f,
                   done |-> FALSE, out |-> <<>>, text |-> <<>>, prompt |-> <<>>] :
                     r \in BOOLEAN, c \in ShortPages \cup LongPages, f \in Fallbacks}

ProbeScrape ==
    /\ probe.fn = "scrape_article_content"
    /\ ~probe.done
    /\ probe' = [probe EXCEPT
                    !.done = TRUE,
                    !.out = ScrapeArticleContent(probe.fetch, probe.fallback),
                    !.text = AnalystScrape(probe.fetch, probe.fallback),
                    !.prompt = AnalystText(probe.fetch, <<"H">>, probe.fallback)]
    /\ UNCHANGED <<hasModel, store, drain, backfill, failBudget>>

SpecScrape == InitScrape /\ [][ProbeScrape]_vars

(***************************************************************************)
(* agents.py:137-178, 218  the article text of the prompt, for a fetch, a  *)
(* headline and a feed summary.                                            *)
(***************************************************************************)
\* pages around the length test, without a phrase and with one in several
\* spellings; pages longer than the budget; a page without paragraphs
LadderPages ==
    {<<>>}
        \cup {Page(n, body) : n \in {MinScraped - 1, MinScraped},
                              body \in {<<>>} \cup Spellings(BlockingPhrases[4])}
        \cup LongPages

\* summaries around the length test and longer than the prompt takes
Summary(n) == [i \in 1..n |-> "s"]
LadderSummaries ==
    {Summary(n) : n \in {0, MinText - 1, MinText, PromptBudget + ExtraChars}}

LadderHeadlines == {<<>>, <<"H">>}

InitLadder ==
    /\ hasModel = TRUE
    /\ store = EmptyStore
    /\ drain = [d \in Drains |-> IdleDrain]
    /\ backfill = IdleBackfill
    /\ failBudget = -1
    /\ probe \in {[fn |-> "prompt_text",
                   fetch |-> [raises |-> r, content |-> c],
                   headline |-> h, summary |-> f,
                   done |-> FALSE, sent |-> <<>>] :
                     r \in BOOLEAN, c \in LadderPages,
                     h \in LadderHeadlines, f \in LadderSummaries}

ProbePromptText ==
    /\ probe.fn = "prompt_text"
    /\ ~probe.done
    /\ probe' = [probe EXCEPT
                    !.done = TRUE,
                    !.sent = PromptText(probe.fetch, probe.headline, probe.summary)]
    /\ UNCHANGED <<hasModel, store, drain, backfill, failBudget>>

SpecLadder == InitLadder /\ [][ProbePromptText]_vars

(***************************************************************************)
(* find_similar_articles applied on its own to a store and a url.          *)
(***************************************************************************)
\* a stored article with this bias label, these keywords and these tags
SimDoc(u, v) ==
    [Draft(u, "Politics", 0) EXCEPT
        !.processing_status = "processed", !.bias_label = v[1],
        !.keywords = v[2], !.topic_tags = v[3]]

Variants ==
    { <<"Left", <<"k1", "k2">>, {"t1"}>>,
      <<"Right", <<"k1">>, {}>>,
      <<"Right", <<"k1", "k2">>, {"t1"}>>,
      <<"Left", <<>>, {"t1"}>>,
      <<"Right", <<>>, {"t1"}>> }

SameHostVariants == { <<"Right", <<"k1", "k2">>, {"t1"}>>, <<"Right", <<>>, {"t1"}>> }

ReferenceVariants ==
    {<<"Left", kw, tags>> : kw \in {<<>>, <<"k1", "k2">>}, tags \in {{}, {"t1"}}}

DocOrNone(u, vs) == {<<>>} \cup {SaveArticle(EmptyStore, SimDoc(u, v)) : v \in vs}

SmallSimStores ==
    { x[1] @@ x[2] @@ x[3] @@ x[4] @@ x[5] @@ x[6] :
        x \in {SaveArticle(EmptyStore, SimDoc(u, v)) :
                  u \in {SiteUrl(HostA, 1), SiteUrl(HostBad, 1)}, v \in ReferenceVariants}
              \X DocOrNone(SiteUrl(HostA, 2), SameHostVariants)
              \X DocOrNone(SiteUrl(HostWwwA, 3), SameHostVariants)
              \X DocOrNone(SiteUrl(HostBad, 2), Variants)
              \X DocOrNone(SiteUrl(HostB, 1), Variants)
              \X DocOrNone(SiteUrl(HostB, 2), Variants) }

\* stores in which more articles share a keyword with the reference than a
\* query returns: the articles after the first 20 have the highest score
BigSimStores ==
    { SaveAll(SaveArticle(EmptyStore,
                          SimDoc(SiteUrl(HostA, 1), <<"Left", <<"k1", "k2">>, {"t1"}>>)),
              [n \in 1..(QueryLimit + ExtraUrls) |->
                  SimDoc(SiteUrl(HostB, n),
                         IF n > QueryLimit THEN <<"Right", <<"k1", "k2">>, {"t1"}>>
                         ELSE IF n = k THEN <<"Left", <<"k1">>, {}>>
                         ELSE <<"Right", <<"k1">>, {}>>)]) :
        k \in {1, QueryLimit} }

SimilarLimits == {2, SimilarLimit}

InitSimilar ==
    /\ hasModel = TRUE
    /\ store \in SmallSimStores \cup BigSimStores
    /\ drain = [d \in Drains |-> IdleDrain]
    /\ backfill = IdleBackfill
    /\ failBudget = -1
    /\ probe \in {[fn |-> "find_similar_articles", article_id |-> u, limit |-> l,
                   done |-> FALSE, out |-> <<>>, queries |-> <<>>, candidates |-> <<>>] :
                     u \in {SiteUrl(HostA, 1), SiteUrl(HostBad, 1), SiteUrl(HostB, 1)},
                     l \in SimilarLimits}

ProbeFindSimilar ==
    /\ probe.fn = "find_similar_articles"
    /\ ~probe.done
    /\ probe' = [probe EXCEPT
                    !.done = TRUE,
                    !.out = FindSimilarArticles(store, probe.article_id, probe.limit),
                    !.queries = QueriesIssued(store, probe.article_id, probe.limit),
                    !.candidates = CandidateList(store, probe.article_id, probe.limit)]
    /\ UNCHANGED <<hasModel, store, drain, backfill, failBudget>>

SpecSimilar == InitSimilar /\ [][ProbeFindSimilar]_vars

(***************************************************************************)
(* Backfill runs one after another, with a text service that answers every *)
(* request with the same valid JSON object (probe.answer) and no timeouts. *)
(***************************************************************************)
\* objects with every field, a valid label and a list of tags; the detailed
\* summary is long or short and the keywords are some or none
ValidAnswers ==
    {ObjectResponse("ai_headline", "ai_tldr", d, "Center", TRUE, {"Economy"}, kw) :
        d \in {"ai_detailed", "ai_short"}, kw \in {<<"k1", "k2">>, <<>>}}

\* stores with a draft and, or not, an article that failed or was analysed
\* before
ConvergeStores ==
    {SaveAll(EmptyStore, <<Draft(Url(1), "Politics", 1)>> \o rest) :
        rest \in {<<>>,
                  <<Draft(Url(2), "Economy", 0)>>,
                  <<Doc(2, "failed", 0, None, <<>>)>>,
                  <<Doc(2, "processed", 0, "ai_detailed", <<"k1">>)>>,
                  <<Doc(2, "processed", 0, "ai_short", <<"k1">>)>>}}

InitConverge ==
    /\ hasModel = TRUE
    /\ store \in ConvergeStores
    /\ drain = [d \in Drains |-> IdleDrain]
    /\ backfill = IdleBackfill
    /\ failBudget = -1
    /\ probe \in {[fn |-> "backfill_runs", answer |-> a] : a \in ValidAnswers}

\* main.py:89-95  process_backfill, any number of times
ProcessBackfillRepeat ==
    /\ backfill.pc \in {"idle", "done"}
    /\ backfill' = [IdleBackfill EXCEPT !.pc = "scheduled"]
    /\ UNCHANGED <<hasModel, store, drain, failBudget, probe>>

\* main.py:121-126  process_article returns with the answer of the service
BackfillCompleteAnswer == BackfillComplete(probe.answer)

NextConverge ==
    \/ ProcessBackfillRepeat
    \/ BackfillSelect
    \/ BackfillCompleteAnswer
    \/ BackfillWake

\* every request for a backfill is served and every started run goes on
SpecConverge == InitConverge /\ [][NextConverge]_vars /\ WF_vars(NextConverge)

(***************************************************************************)
(* database.py:20-26  save_article called for one url after another.       *)
(***************************************************************************)
MaxSaves == 3

\* urls that differ in a "/" of the path and a "_", and one apart from both
KeyUrls ==
    {<<"h", "/", "1", "/", "2">>, <<"h", "/", "1", "_", "2">>, <<"h", "/", "3">>,
     <<"h", "/", "4">>}

InitKeys ==
    /\ hasModel = TRUE
    /\ store = EmptyStore
    /\ drain = [d \in Drains |-> IdleDrain]
    /\ backfill = IdleBackfill
    /\ failBudget = -1
    /\ probe = [fn |-> "save_article", saved |-> <<>>]

\* database.py:20-26  save_article(article) for a draft or an analysed
\* article of url u
SaveUrl(u, st) ==
    /\ probe.fn = "save_article"
    /\ Len(probe.saved) < MaxSaves
    /\ store' = SaveArticle(store, [Draft(u, "Politics", 0) EXCEPT !.processing_status = st])
    /\ probe' = [probe EXCEPT !.saved = Append(@, u)]
    /\ UNCHANGED <<hasModel, drain, backfill, failBudget>>

NextKeys == \E u \in KeyUrls, st \in {"pending", "processed"} : SaveUrl(u, st)

SpecKeys == InitKeys /\ [][NextKeys]_vars

(***************************************************************************)
(* database.py  the store operations with the client they run on.          *)
(*                                                                         *)
(* db is "none" when firestore.Client() raised at import (lines 9-13),     *)
(* "unreachable" when the client was built and its calls raise (the        *)
(* service is down or rejects the call), "ready" otherwise.  A call        *)
(* yields [raised, out, store]: whether it raised to its caller, what it   *)
(* returned, and the collection after it.                                  *)
(***************************************************************************)
DatesWindow == 500      \* database.py:161
SearchLimit == 20       \* database.py:202
HoursPerDay == 24       \* created_at is in hours; .date() of lines 41-42, 172

DbStates == {"none", "unreachable", "ready"}

Returned(out, s) == [raised |-> FALSE, out |-> out, store |-> s]
Raised(s) == [raised |-> TRUE, out |-> <<>>, store |-> s]

DateOf(t) == t \div HoursPerDay

\* the distinct values of a set of numbers, largest first
SortedDescending(S) ==
    [k \in 1..Cardinality(S) |->
        CHOOSE x \in S : Cardinality({y \in S : y > x}) = k - 1]

\* database.py:20-26  no try block around doc_ref.set
save_article(db, s, article) ==
    IF db = "none" THEN Returned(<<>>, s)
    ELSE IF db = "unreachable" THEN Raised(s)
    ELSE Returned(<<>>, SaveArticle(s, article))

\* database.py:28-60  filter_date is <<>> for None, else <<the date>>
get_recent_articles(db, s, limit, filter_date) ==
    IF db = "none" THEN Returned(<<>>, s)
    ELSE IF db = "unreachable" THEN Returned(<<>>, s)
    ELSE LET ordered == SortRecent(StreamAll(s))
             query == IF filter_date # <<>>
                      THEN SelectSeq(ordered,
                                     LAMBDA a : DateOf(a.created_at) = filter_date[1])
                      ELSE ordered
         IN  Returned(Take(query, limit), s)

\* database.py:62-78
get_pending_articles(db, s, limit) ==
    IF db = "none" THEN Returned(<<>>, s)
    ELSE IF db = "unreachable" THEN Returned(<<>>, s)
    ELSE Returned(WherePending(s, limit), s)

\* database.py:80-144
get_backfill_candidates(db, s, limit) ==
    IF db = "none" THEN Returned(<<>>, s)
    ELSE IF db = "unreachable" THEN Returned(<<>>, s)
    ELSE Returned(GetBackfillCandidates(s, limit), s)

\* database.py:146-179
get_available_dates(db, s) ==
    IF db = "none" THEN Returned(<<>>, s)
    ELSE IF db = "unreachable" THEN Returned(<<>>, s)
    ELSE LET docs == Take(SortRecent(StreamAll(s)), DatesWindow)
             dates == {DateOf(docs[i].created_at) : i \in DOMAIN docs}
         IN  Returned(SortedDescending(dates), s)

\* database.py:181-204  no try block around the query
search_articles_by_query(db, s, query_params) ==
    IF db = "none" THEN Returned(<<>>, s)
    ELSE IF db = "unreachable" THEN Raised(s)
    ELSE LET byBias ==
                 IF query_params.bias_label # None
                 THEN SelectSeq(StreamAll(s),
                                LAMBDA a : a.bias_label = query_params.bias_label)
                 ELSE StreamAll(s)
             byTags ==
                 IF query_params.topic_tags # {}
                 THEN SelectSeq(byBias,
                                LAMBDA a : a.topic_tags \cap query_params.topic_tags # {})
                 ELSE byBias
         IN  Returned(Take(SortRecent(byTags), SearchLimit), s)

\* database.py:206-307
find_similar_articles(db, s, article_id, limit) ==
    IF db = "none" THEN Returned(<<>>, s)
    ELSE IF db = "unreachable" THEN Returned(<<>>, s)
    ELSE Returned(FindSimilarArticles(s, article_id, limit), s)

\* a call of a store operation: the operation and its arguments, the
\* arguments it does not take at NoCall's values
NoCall ==
    [ op |-> "none", article |-> Draft(<<>>, "", 0), limit |-> 0, filter_date |-> <<>>,
      query_params |-> [bias_label |-> None, topic_tags |-> {}], article_id |-> <<>> ]

StoreCall(db, s, call) ==
    CASE call.op = "save_article" -> save_article(db, s, call.article)
      [] call.op = "get_recent_articles" ->
            get_recent_articles(db, s, call.limit, call.filter_date)
      [] call.op = "get_pending_articles" -> get_pending_articles(db, s, call.limit)
      [] call.op = "get_backfill_candidates" -> get_backfill_candidates(db, s, call.limit)
      [] call.op = "get_available_dates" -> get_available_dates(db, s)
      [] call.op = "search_articles_by_query" ->
            search_articles_by_query(db, s, call.query_params)
      [] call.op = "find_similar_articles" ->
            find_similar_articles(db, s, call.article_id, call.limit)

\* the default limits of the operations
RecentDefault == 50     \* database.py:28

\* a stored article created at this hour
OpDoc(u, st, created, bias) ==
    [Draft(u, "Politics", created) EXCEPT
        !.processing_status = st, !.bias_label = bias,
        !.keywords = IF st = "processed" THEN <<"k1">> ELSE <<>>,
        !.detailed_summary = IF st = "processed" THEN "ai_detailed" ELSE None]

OpDocs(u) ==
    {OpDoc(u, st, c, b) : st \in {"pending", "processed"},
                          c \in {0, HoursPerDay + 1}, b \in {"Left", "Right"}}

OpDocOrNone(u) == {<<>>} \cup {SaveArticle(EmptyStore, a) : a \in OpDocs(u)}

OpStores ==
    {x[1] @@ x[2] : x \in OpDocOrNone(SiteUrl(HostA, 1)) \X OpDocOrNone(SiteUrl(HostB, 1))}

StoreCalls ==
    {[NoCall EXCEPT !.op = "save_article", !.article = a] :
        a \in {Draft(SiteUrl(HostA, 1), "Politics", 0), Draft(SiteUrl(HostB, 2), "World", 0)}}
    \cup {[NoCall EXCEPT !.op = "get_recent_articles", !.limit = l, !.filter_date = d] :
            l \in {1, RecentDefault}, d \in {<<>>, <<0>>, <<1>>}}
    \cup {[NoCall EXCEPT !.op = "get_pending_articles", !.limit = l] : l \in {1, PageLimit}}
    \cup {[NoCall EXCEPT !.op = "get_backfill_candidates", !.limit = l] :
            l \in {1, BackfillLimit}}
    \cup {[NoCall EXCEPT !.op = "get_available_dates"]}
    \cup {[NoCall EXCEPT !.op = "search_articles_by_query",
                         !.query_params = [bias_label |-> b, topic_tags |-> t]] :
            b \in {None, "Left"}, t \in {{}, {"Politics"}, {"World"}}}
    \cup {[NoCall EXCEPT !.op = "find_similar_articles", !.article_id = u,
                         !.limit = SimilarLimit] :
            u \in {SiteUrl(HostA, 1), SiteUrl(HostB, 2)}}

InitStoreOps ==
    /\ hasModel = TRUE
    /\ store \in OpStores
    /\ drain = [d \in Drains |-> IdleDrain]
    /\ backfill = IdleBackfill
    /\ failBudget = -1
    /\ probe \in {[fn |-> "store_call", db |-> db, call |-> c, before |-> <<>>,
                   done |-> FALSE, raised |-> FALSE, out |-> <<>>] :
                     db \in DbStates, c \in StoreCalls}

ProbeStoreCall ==
    /\ probe.fn = "store_call"
    /\ ~probe.done
    /\ LET res == StoreCall(probe.db, store, probe.call)
       IN  /\ probe' = [probe EXCEPT !.done = TRUE, !.raised = res.raised,
                                     !.out = res.out, !.before = store]
           /\ store' = res.store
    /\ UNCHANGED <<hasModel, drain, backfill, failBudget>>

SpecStoreOps == InitStoreOps /\ [][ProbeStoreCall]_vars

(***************************************************************************)
(* agents.py:180-208  the baseline bias of the domain of an article.       *)
(*                                                                         *)
(* known_bias.json is read as a dict; bias_map is its items in file order, *)
(* pairs <<key, label>> with distinct keys.  bias_file.exists says whether *)
(* the file is there.                                                      *)
(***************************************************************************)
UnknownLabel == "Unknown"

\* agents.py:197-204  the label of key domain, else of the first key in
\* table order that occurs in domain, else "Unknown"
LookUp(domain, bias_map) ==
    IF \E i \in DOMAIN bias_map : bias_map[i][1] = domain
    THEN bias_map[CHOOSE i \in DOMAIN bias_map : bias_map[i][1] = domain][2]
    ELSE IF \E i \in DOMAIN bias_map : IsSubstring(bias_map[i][1], domain)
    THEN LET first == CHOOSE i \in DOMAIN bias_map :
                        /\ IsSubstring(bias_map[i][1], domain)
                        /\ \A j \in 1..(i - 1) : ~IsSubstring(bias_map[j][1], domain)
         IN  bias_map[first][2]
    ELSE UnknownLabel

\* agents.py:180-208  known_bias_label: "Unknown" when urlparse raises
\* (207-208) or the file is missing (205-206)
KnownBiasLabel(url, bias_file) ==
    IF ~UrlParses(url) THEN UnknownLabel
    ELSE IF ~bias_file.exists THEN UnknownLabel
    ELSE LookUp(StripWww(Netloc(url)), bias_file.bias_map)

\* hosts: a site, the site with "www.", a subdomain of it with and without
\* "www.", a host with "www." inside its name, another site, and a host
\* that urlparse rejects
HostSub == <<"e", ".", "a">>
HostWwwSub == <<"w", "w", "w", ".", "e", ".", "a">>
HostInner == <<"x", "w", "w", "w", ".", "a">>
BiasHosts == {HostA, HostWwwA, HostSub, HostWwwSub, HostInner, HostB, HostBad}

\* keys of a table: the hosts without "www.", a suffix of the subdomain,
\* and the inner-www host as it is and without its "www."
BiasKeys == {HostA, <<".", "a">>, HostSub, HostB, HostInner, <<"x", "a">>}
MaxTable == 3
TableLabels == <<"Left", "Right", "Center">>

\* tables of up to MaxTable distinct keys; the label tells the position
BiasTables ==
    UNION { { [i \in 1..n |-> <<ks[i], TableLabels[i]>>] :
                ks \in {q \in [1..n -> BiasKeys] :
                           \A i, j \in 1..n : q[i] = q[j] => i = j} } :
            n \in 0..MaxTable }

BiasFiles ==
    {[exists |-> FALSE, bias_map |-> <<>>]}
        \cup {[exists |-> TRUE, bias_map |-> t] : t \in BiasTables}

InitBias ==
    /\ hasModel = TRUE
    /\ store = EmptyStore
    /\ drain = [d \in Drains |-> IdleDrain]
    /\ backfill = IdleBackfill
    /\ failBudget = -1
    /\ probe \in {[fn |-> "known_bias_label", url |-> SiteUrl(h, 1), bias_file |-> f,
                   done |-> FALSE, out |-> ""] :
                     h \in BiasHosts, f \in BiasFiles}

ProbeKnownBias ==
    /\ probe.fn = "known_bias_label"
    /\ ~probe.done
    /\ probe' = [probe EXCEPT
                    !.done = TRUE,
                    !.out = KnownBiasLabel(probe.url, probe.bias_file)]
    /\ UNCHANGED <<hasModel, store, drain, backfill, failBudget>>

SpecBias == InitBias /\ [][ProbeKnownBias]_vars

(***************************************************************************)
(* Properties.                                                             *)
(***************************************************************************)
Settled == {"processed", "failed"}

Stored(s, u) == s[DocId(u)]

ArtsOf(units) == [i \in DOMAIN units |-> units[i].art]

Eligible(s) ==
    Take(SelectSeq(StreamAll(s), LAMBDA a : a.processing_status \in {"pending", "failed"}),
         PageLimit)

\* C3 (Spec): a drain selects the first up to 10 stored articles whose status
\* is pending or failed, ends at once when there are none, re-runs the
\* selection when the finished batch had exactly 10 articles and ends when
\* it had fewer.
C3_DrainRerunRule ==
    [][\A d \in Drains :
          /\ (drain[d].pc = "scheduled" /\ drain'[d].pc # "scheduled")
                => /\ drain'[d].pc = (IF Eligible(store) = <<>> THEN "done" ELSE "running")
                   /\ ArtsOf(drain'[d].units) = Eligible(store)
          /\ (drain[d].pc = "running" /\ AllDone(drain[d].units) /\ drain'[d] # drain[d])
                => IF Len(drain[d].units) = PageLimit
                   THEN /\ drain'[d].pc = (IF Eligible(store) = <<>> THEN "done" ELSE "running")
                        /\ ArtsOf(drain'[d].units) = Eligible(store)
                   ELSE drain'[d].pc = "done"]_vars

C5_FailureFrame ==
    (/\ probe.fn = "process_article"
     /\ probe.done
     /\ hasModel
     /\ ~probe.raised
     /\ probe.out.processing_status = "failed")
        => probe.out = [probe.art EXCEPT !.processing_status = "failed"]

AllPending(s) == SelectSeq(StreamAll(s), LAMBDA a : a.processing_status = "pending")

\* the articles of the recent window that are not pending and are not
\* processed, or lack a detailed_summary of 10 characters, or lack keywords
RecentNeedy(s) ==
    SelectSeq(RecentDocs(s),
              LAMBDA a : /\ a.processing_status # "pending"
                         /\ \/ a.processing_status # "processed"
                            \/ a.detailed_summary = None
                            \/ TextLen(a.detailed_summary) < SummaryMinLen
                            \/ a.keywords = <<>>)

\* C10 as claimed (SpecSelect): the result is all pending articles followed
\* by the needy articles of the recent window.
C10_AllCandidates ==
    (probe.fn = "get_backfill_candidates" /\ probe.done)
        => probe.out = AllPending(store) \o RecentNeedy(store)

\* C10 as amended (SpecSelect): the result is the first `limit` articles of
\* the pending articles followed by the needy articles of the recent
\* window, created_at descending, and holds no url twice.
C10_CandidatesUpToLimit ==
    (probe.fn = "get_backfill_candidates" /\ probe.done)
        => /\ probe.out = Take(AllPending(store) \o RecentNeedy(store), probe.limit)
           /\ \A i, j \in DOMAIN probe.out : probe.out[i].url = probe.out[j].url => i = j

\* C10 witness: over a store larger than the recent window, with a failed
\* article outside the window, the result leaves that article out and holds
\* a pending article and then a failed one.
C10_Witness ==
    /\ probe.fn = "get_backfill_candidates"
    /\ probe.done
    /\ Cardinality(DOMAIN store) > RecentWindow
    /\ Stored(store, Url(1)).processing_status = "failed"
    /\ \A i \in DOMAIN probe.out : probe.out[i].url # Url(1)
    /\ Len(probe.out) >= 2
    /\ probe.out[1].processing_status = "pending"
    /\ probe.out[Len(probe.out)].processing_status = "failed"

HarvestSaved == \E d \in Drains : \E S \in HarvestYields : BatchIngest(d, S)

\* C12 (Spec): a record is created pending, and the status of an existing
\* record changes only to processed or failed in a step that saves the
\* outcome of an analysis, or to pending in a step of the backfill; a
\* harvest that yields the url of an existing record leaves its status.
C12_StatusTransitions ==
    [][/\ \A id \in DOMAIN store' \ DOMAIN store :
             store'[id].processing_status = "pending"
       /\ \A id \in DOMAIN store \cap DOMAIN store' :
             store'[id].processing_status # store[id].processing_status
                 => IF store'[id].processing_status = "pending"
                    THEN BackfillSteps
                    ELSE ~HarvestSaved]_vars

Harvested == probe.fn = "fetch_new_articles" /\ probe.done

\* the entries of the feeds that have a publish time
DatedEntries(feeds) ==
    {a \in UNION {UNION {{<<c, u, e>> : e \in DOMAIN feeds[c].urls[u].entries} :
                            u \in DOMAIN feeds[c].urls} : c \in DOMAIN feeds} :
        EntryAt(feeds, a).date = "valid"}

Included(a) == \E i \in DOMAIN probe.run.accepted : probe.run.accepted[i] = a

\* C13 as claimed (SpecHarvest): an entry with a publish time T is included
\* iff T >= now - 48h.
C13_RecentIffIncluded ==
    Harvested =>
        \A a \in DatedEntries(probe.feeds) :
            Included(a) <=> EntryAt(probe.feeds, a).time >= CutoffTime

\* C13 as amended (SpecHarvest): an entry with a publish time T that the
\* loop examines is included iff T >= now - 48h, T equal to the cutoff
\* included, and its link and title are not empty; no other entry is
\* included, and every draft and dict returned has created_at >= cutoff.
C13_RecentAndValidIffIncluded ==
    Harvested =>
        /\ \A a \in DatedEntries(probe.feeds) :
              Included(a) <=> /\ a \in probe.run.examined
                              /\ EntryAt(probe.feeds, a).time >= CutoffTime
                              /\ EntryAt(probe.feeds, a).link # <<>>
                              /\ EntryAt(probe.feeds, a).title # ""
        /\ \A i \in DOMAIN probe.run.accepted :
              probe.run.accepted[i] \in DatedEntries(probe.feeds)
        /\ \A i \in DOMAIN probe.articles : probe.articles[i].created_at >= CutoffTime
        /\ \A i \in DOMAIN probe.dicts : probe.dicts[i].created_at >= CutoffTime

\* C13 witness: one source held an entry published exactly at the cutoff,
\* which is included, and one published an hour before, which is not.
C13_Witness ==
    /\ Harvested
    /\ \E a \in DatedEntries(probe.feeds) :
          /\ EntryAt(probe.feeds, a).time = CutoffTime
          /\ Included(a)
          /\ \E b \in probe.run.examined :
                /\ b[1] = a[1] /\ b[2] = a[2]
                /\ EntryAt(probe.feeds, b).time = CutoffTime - 1
                /\ ~Included(b)
    /\ \E i \in DOMAIN probe.articles : probe.articles[i].created_at = CutoffTime

Fetched(c, u) == \E i \in DOMAIN probe.run.fetched : probe.run.fetched[i] = <<c, u>>

\* the entries accepted from the sources of category c that come before
\* source u
AcceptedBefore(c, u) ==
    Cardinality({i \in DOMAIN probe.run.accepted :
                    probe.run.accepted[i][1] = c /\ probe.run.accepted[i][2] < u})

\* C14 (SpecHarvest): a run accepts at most 12 entries of a category, and
\* fetches a source only when the sources before it in its category have
\* had fewer than 12 entries accepted.
C14_CategoryCap ==
    Harvested =>
        /\ \A c \in DOMAIN probe.feeds :
              /\ CategoryCount(probe.run, c) <= MaxPerCategory
              /\ Cardinality({i \in DOMAIN probe.articles :
                     probe.feeds[c].category \in probe.articles[i].topic_tags})
                    <= MaxPerCategory
        /\ \A c \in DOMAIN probe.feeds : \A u \in DOMAIN probe.feeds[c].urls :
              Fetched(c, u) => AcceptedBefore(c, u) < MaxPerCategory

\* C14 witness: the first source of a category has more recent entries than
\* the cap; 12 are accepted, the entry after them is not, and the two
\* sources after it are not fetched, while the next category is.
C14_Witness ==
    /\ Harvested
    /\ Len(probe.feeds[1].urls) = 3
    /\ Len(probe.feeds[1].urls[1].entries) > MaxPerCategory
    /\ CategoryCount(probe.run, 1) = MaxPerCategory
    /\ ~Included(<<1, 1, MaxPerCategory + 1>>)
    /\ ~Fetched(1, 2) /\ ~Fetched(1, 3)
    /\ Fetched(2, 1)
    /\ CategoryCount(probe.run, 2) = 1

\* C15 (SpecHarvest): the drafts one run returns hold no url twice.
C15_NoDuplicateUrl ==
    Harvested =>
        \A i, j \in DOMAIN probe.articles :
            probe.articles[i].url = probe.articles[j].url => i = j

\* the entries of a source before the first one whose date raises
RECURSIVE BeforeRaise(_)
BeforeRaise(entries) ==
    IF entries = <<>> \/ Head(entries).date = "invalid" THEN <<>>
    ELSE <<Head(entries)>> \o BeforeRaise(Tail(entries))

\* the feeds with every source that raises replaced by what it yielded
\* before it raised
WithoutRaises(feeds) ==
    [c \in DOMAIN feeds |->
        [feeds[c] EXCEPT !.urls =
            [u \in DOMAIN feeds[c].urls |->
                IF feeds[c].urls[u].fails THEN Source(FALSE, <<>>)
                ELSE Source(FALSE, BeforeRaise(feeds[c].urls[u].entries))]]]

\* C16 (SpecHarvest): a source that raises, when fetched or at one of its
\* entries, costs the run only the entries of that source from the raise
\* on: the run returns the drafts it returns for the feeds in which that
\* source ends there without raising, fetches no source twice, and fetches
\* each source whose category is not at its cap.
C16_SourceFailureIsolated ==
    Harvested =>
        /\ probe.articles = FetchNewArticles(WithoutRaises(probe.feeds))
        /\ probe.dicts = FetchRssArticles(WithoutRaises(probe.feeds))
        /\ \A i, j \in DOMAIN probe.run.fetched :
              probe.run.fetched[i] = probe.run.fetched[j] => i = j
        /\ \A c \in DOMAIN probe.feeds : \A u \in DOMAIN probe.feeds[c].urls :
              Fetched(c, u) <=> AcceptedBefore(c, u) < MaxPerCategory

\* C16 witness: the first source raises at its second entry after its first
\* was accepted, the second source raises when fetched, and the source of
\* the next category is fetched and has its entry accepted.
C16_Witness ==
    /\ Harvested
    /\ Len(probe.feeds[1].urls[1].entries) = 2
    /\ probe.feeds[1].urls[1].entries[2].date = "invalid"
    /\ Included(<<1, 1, 1>>)
    /\ probe.feeds[1].urls[2].fails
    /\ Fetched(1, 2)
    /\ Fetched(2, 1)
    /\ Included(<<2, 1, 1>>)
    /\ Len(probe.articles) = 2

Scraped == probe.fn = "scrape_article_content" /\ probe.done

\* the scraped text: the content cut to the budget
ScrapedText == Take(probe.fetch.content, ScrapeBudget)

\* the scraped text holds a blocking phrase, in any case of its letters
HoldsBlockingPhrase ==
    \E p \in DOMAIN BlockingPhrases :
        \E i \in 1..Len(ScrapedText) :
            /\ i + Len(BlockingPhrases[p]) - 1 <= Len(ScrapedText)
            /\ \A k \in DOMAIN BlockingPhrases[p] :
                  ScrapedText[i + k - 1] \in {BlockingPhrases[p][k],
                                              UpperChar(BlockingPhrases[p][k])}

\* C17 (SpecScrape): when the fetch raised, or the scraped text has fewer
\* than 200 characters or holds a blocking phrase in any case, the output
\* of scrape_article_content, and the text process_article goes on with,
\* is the fallback text.
C17_BlockedFallsBack ==
    (Scraped /\ (\/ probe.fetch.raises
                 \/ Len(ScrapedText) < MinScraped
                 \/ HoldsBlockingPhrase))
        => /\ probe.out = probe.fallback
           /\ probe.text = probe.fallback

\* C17 witness: a page of 200 characters or more that spells a blocking
\* phrase with capitals was fetched, and the output is the fallback.
C17_Witness ==
    /\ Scraped
    /\ ~probe.fetch.raises
    /\ Len(ScrapedText) >= MinScraped
    /\ HoldsBlockingPhrase
    /\ Lower(ScrapedText) # ScrapedText
    /\ probe.fallback # <<>>
    /\ probe.out = probe.fallback

Found == probe.fn = "find_similar_articles" /\ probe.done

\* the domain of a url: its host without "www."
Domain(u) == StripWww(Netloc(u))

\* C18 (SpecSimilar): no article of the result has the domain of the
\* reference, and the reference is not in the result.
C18_DomainExclusion ==
    Found =>
        \A i \in DOMAIN probe.out :
            /\ probe.out[i].url # probe.article_id
            /\ Domain(probe.out[i].url) # Domain(probe.article_id)

\* the reference article of the call
Reference == Head(TargetDocs(store, probe.article_id))

SharedKeywords(a) ==
    {k \in SeqToSet(a.keywords) : \E i \in DOMAIN Reference.keywords : Reference.keywords[i] = k}

SharedTags(a) == {t \in a.topic_tags : t \in Reference.topic_tags}

\* 10 when the bias differs from the reference's, 5 for each shared
\* keyword, 1 for each shared tag
Score(a) ==
    (IF a.bias_label = Reference.bias_label THEN 0 ELSE 10)
    + 5 * Cardinality(SharedKeywords(a)) + Cardinality(SharedTags(a))

\* C19 (SpecSimilar): the result is in order of non-increasing score, and
\* of two candidates with as many shared keywords and as many shared tags,
\* the one whose bias differs from the reference's comes before the one
\* whose bias is the reference's.
C19_DiversityRanking ==
    (Found /\ TargetDocs(store, probe.article_id) # <<>>) =>
        \A i, j \in DOMAIN probe.out :
            /\ i < j => Score(probe.out[i]) >= Score(probe.out[j])
            /\ (/\ Cardinality(SharedKeywords(probe.out[i]))
                      = Cardinality(SharedKeywords(probe.out[j]))
                /\ Cardinality(SharedTags(probe.out[i]))
                      = Cardinality(SharedTags(probe.out[j]))
                /\ probe.out[i].bias_label # Reference.bias_label
                /\ probe.out[j].bias_label = Reference.bias_label)
                    => i < j

\* C19 witness: two candidates share two keywords and a tag with the
\* reference; the one retrieved second has another bias and comes first.
C19_Witness ==
    /\ Found
    /\ probe.article_id = SiteUrl(HostA, 1)
    /\ TargetDocs(store, probe.article_id) # <<>>
    /\ Len(probe.out) = 2
    /\ probe.out[1].url = SiteUrl(HostB, 2)
    /\ probe.out[2].url = SiteUrl(HostB, 1)
    /\ Cardinality(SharedKeywords(probe.out[1])) = 2
    /\ Cardinality(SharedKeywords(probe.out[2])) = 2
    /\ Cardinality(SharedTags(probe.out[1])) = Cardinality(SharedTags(probe.out[2]))
    /\ probe.out[1].bias_label # Reference.bias_label
    /\ probe.out[2].bias_label = Reference.bias_label

\* the candidates of the call in retrieval order: the results of the
\* keyword query, then those of the tag query
Retrieved == Candidates(store, Reference, probe.limit)

\* the place of an article in the retrieval order
RetrievedAt(a) == CHOOSE k \in DOMAIN Retrieved : Retrieved[k].url = a.url

InResult(a) == \E i \in DOMAIN probe.out : probe.out[i].url = a.url

\* C20 (SpecSimilar): the result has at most `limit` articles, all of them
\* candidates; articles of equal score are in retrieval order, one found by
\* the keyword query before one found by the tag query only; and a
\* candidate left out would come after every article of the result in that
\* order, so the result is the first `limit` of the sorted candidates.
C20_StableTopN ==
    (Found /\ TargetDocs(store, probe.article_id) # <<>>
           /\ (Reference.keywords # <<>> \/ Reference.topic_tags # {})) =>
        /\ Len(probe.out) = (IF Len(Retrieved) < probe.limit
                             THEN Len(Retrieved) ELSE probe.limit)
        /\ \A i \in DOMAIN probe.out :
              \E k \in DOMAIN Retrieved : Retrieved[k] = probe.out[i]
        /\ \A i, j \in DOMAIN probe.out :
              (i < j /\ Score(probe.out[i]) = Score(probe.out[j]))
                  => /\ RetrievedAt(probe.out[i]) < RetrievedAt(probe.out[j])
                     /\ ~ (/\ SharedKeywords(probe.out[i]) = {}
                           /\ SharedKeywords(probe.out[j]) # {})
        /\ \A k \in DOMAIN Retrieved : \A i \in DOMAIN probe.out :
              ~InResult(Retrieved[k])
                  => \/ Score(Retrieved[k]) < Score(probe.out[i])
                     \/ /\ Score(Retrieved[k]) = Score(probe.out[i])
                        /\ k > RetrievedAt(probe.out[i])

\* C20 witness: three candidates for a limit of 2; the two returned have
\* the same score, the first found by the keyword query and the second by
\* the tag query.
C20_Witness ==
    /\ Found
    /\ TargetDocs(store, probe.article_id) # <<>>
    /\ probe.limit = 2
    /\ Len(probe.out) = 2
    /\ Len(Retrieved) = 3
    /\ Score(probe.out[1]) = Score(probe.out[2])
    /\ SharedKeywords(probe.out[1]) # {}
    /\ SharedKeywords(probe.out[2]) = {}

\* C21 (SpecAnalyst): without a model, process_article returns the article
\* with status failed and the placeholder text as summary, tldr_summary and
\* detailed_summary, every other field as it was, and has run neither the
\* page fetch nor the request to the text service.
C21_MissingCredential ==
    (probe.fn = "process_article" /\ probe.done /\ ~hasModel) =>
        /\ ~probe.raised
        /\ probe.out = [probe.art EXCEPT !.processing_status = "failed",
                                         !.summary = NoKeyText,
                                         !.tldr_summary = NoKeyText,
                                         !.detailed_summary = NoKeyText]
        /\ ~probe.fetched
        /\ ~probe.requested

\* C21 witness: the call was made without a model for an article enriched
\* before, and with a model the same call fetches the page and makes the
\* request.
C21_Witness ==
    /\ probe.fn = "process_article"
    /\ probe.done
    /\ ~hasModel
    /\ probe.art.tldr_summary = "ai_tldr"
    /\ probe.out.tldr_summary = NoKeyText
    /\ probe.out.processing_status = "failed"
    /\ ProcessArticle(TRUE, probe.art, probe.resp).fetched
    /\ ProcessArticle(TRUE, probe.art, probe.resp).requested

StoreCalled == probe.fn = "store_call" /\ probe.done

\* C22 (SpecStoreOps): when the store is unavailable, because the client
\* was not built or because its calls fail, a store operation does not
\* raise, returns an empty collection and leaves the collection as it was.
C22_StoreUnavailable ==
    (StoreCalled /\ probe.db # "ready") =>
        /\ ~probe.raised
        /\ probe.out = <<>>
        /\ store = probe.before

\* the same for the client that was not built (db is None)
C22_NoClient ==
    (StoreCalled /\ probe.db = "none") =>
        /\ ~probe.raised
        /\ probe.out = <<>>
        /\ store = probe.before

\* a reply that is a JSON object, bare or between fence markers, with a
\* bias_label of the enum
ValidReply(reply) ==
    /\ reply.body.kind = "object"
    /\ reply.pre \in {<<>>, <<FenceJson>>, <<Fence>>}
    /\ reply.post \in {<<>>, <<Fence>>}
    /\ reply.body.bias_label \in BiasLabel
    /\ reply.body.tags_is_list

Replied == probe.fn = "process_article_reply" /\ probe.done /\ probe.requested

\* the reply is no JSON text, or a JSON text that is no object, or an
\* object whose bias_label is not a label of the enum
SchemaViolation(reply) ==
    \/ ParseReply(reply).kind \in {"notjson", "notobject"}
    \/ /\ ParseReply(reply).kind = "object"
       /\ reply.body.bias_label # Absent
       /\ reply.body.bias_label \notin BiasLabel

\* C24 (SpecReply): on a reply that violates the schema process_article
\* returns without raising and the article is failed; and an article is
\* marked processed only with a bias_label that the reply gave, never with
\* one filled in for it.
C24_SchemaViolationsFail ==
    Replied =>
        /\ SchemaViolation(probe.reply)
              => ~probe.raised /\ probe.out.processing_status = "failed"
        /\ probe.out.processing_status = "processed"
              => /\ probe.reply.body.bias_label # Absent
                 /\ probe.out.bias_label = probe.reply.body.bias_label

\* the first half of C24 alone: a schema violation ends failed, no raise
C24_ViolationsEndFailed ==
    (Replied /\ SchemaViolation(probe.reply))
        => ~probe.raised /\ probe.out.processing_status = "failed"

AnalysesInFlight ==
    {<<"drain", d, i>> : d \in Drains, i \in 1..PageLimit} \cup {<<"backfill", 1, 1>>,
                                                               <<"backfill", 2, 1>>}

InFlightUrl(x) ==
    IF x[1] = "drain"
    THEN IF x[3] \in InFlight(drain[x[2]].units)
         THEN <<drain[x[2]].units[x[3]].art.url>> ELSE <<>>
    ELSE IF x[2] = 1
         THEN IF backfill.pc = "analyzing" THEN <<backfill.art.url>> ELSE <<>>
         ELSE IF probe.fn = "process_backfill_queue" /\ probe.task.pc = "analyzing"
              THEN <<probe.task.art.url>> ELSE <<>>

\* C26 (SpecOverlap): no two process_article calls are in flight for the
\* same url, over the drain tasks and the backfill tasks.
C26_NoDoubleProcessing ==
    \A x, y \in AnalysesInFlight :
        (x # y /\ InFlightUrl(x) # <<>>) => InFlightUrl(x) # InFlightUrl(y)

\* the record a backfill task read for the article it has in hand
ReadBy(bf) == [bf.art EXCEPT !.processing_status = bf.was]

\* a backfill task that analyses an article whose stored record is
\* processed and is no longer the record the task read
Stale(bf, s) ==
    /\ bf.pc = "analyzing"
    /\ DocId(bf.art.url) \in DOMAIN s
    /\ Stored(s, bf.art.url).processing_status = "processed"
    /\ Stored(s, bf.art.url) # ReadBy(bf)

\* C27 (SpecOverlap): the step that ends the analysis of a stale task does
\* not leave the stored record failed, and does not put back the fields
\* the task read.
C27_NoStaleOverwrite ==
    [][/\ (Stale(backfill, store) /\ backfill'.pc = "sleeping")
             => LET rec == Stored(store', backfill.art.url)
                IN  /\ rec.processing_status # "failed"
                    /\ rec.detailed_summary # ReadBy(backfill).detailed_summary
       /\ (Stale(probe.task, store) /\ probe'.task.pc = "sleeping")
             => LET rec == Stored(store', probe.task.art.url)
                IN  /\ rec.processing_status # "failed"
                    /\ rec.detailed_summary # ReadBy(probe.task).detailed_summary]_vars

AllEntries(feeds) ==
    UNION {UNION {{<<c, u, e>> : e \in DOMAIN feeds[c].urls[u].entries} :
                     u \in DOMAIN feeds[c].urls} : c \in DOMAIN feeds}

\* an entry that a run can take: its source was read up to it, it has a
\* publish time inside the window, a link and a title
Acceptable(feeds, a) ==
    LET src == feeds[a[1]].urls[a[2]]
        entry == EntryAt(feeds, a)
    IN  /\ ~src.fails
        /\ \A e \in 1..(a[3] - 1) : src.entries[e].date # "invalid"
        /\ entry.date = "valid"
        /\ entry.time >= CutoffTime
        /\ entry.link # <<>>
        /\ entry.title # ""

\* the acceptable entries of the category of a that the loops reach before a
AcceptableBefore(feeds, a) ==
    {b \in AllEntries(feeds) :
        /\ b[1] = a[1]
        /\ b[2] < a[2] \/ (b[2] = a[2] /\ b[3] < a[3])
        /\ Acceptable(feeds, b)}

\* C28 (SpecHarvest): every draft of a run has a url and a headline that
\* are not empty, those of its entry, the status pending, its category as
\* its only tag and the publish time of its entry as created_at; and only
\* accepted entries count toward the cap: an acceptable entry is taken iff
\* fewer than 12 acceptable entries of its category come before it,
\* however many rejected entries do.
C28_DraftValidity ==
    Harvested =>
        /\ Len(probe.articles) = Len(probe.run.accepted)
        /\ \A i \in DOMAIN probe.articles :
              LET draft == probe.articles[i]
                  entry == EntryAt(probe.feeds, probe.run.accepted[i])
              IN  /\ draft.url # <<>> /\ draft.url = entry.link
                  /\ draft.headline # "" /\ draft.headline = entry.title
                  /\ draft.processing_status = "pending"
                  /\ draft.topic_tags = {probe.feeds[probe.run.accepted[i][1]].category}
                  /\ entry.date = "valid" /\ draft.created_at = entry.time
        /\ \A a \in AllEntries(probe.feeds) :
              Included(a) <=>
                  /\ Acceptable(probe.feeds, a)
                  /\ Cardinality(AcceptableBefore(probe.feeds, a)) < MaxPerCategory

\* C28 witness: a source began with an entry without link, one without
\* title, one without date and one too old, then had 11 recent entries;
\* all 11 and the first entry of the next source were taken, 12 in all,
\* and the entry after that was not.
C28_Witness ==
    /\ Harvested
    /\ Len(probe.feeds[1].urls) = 2
    /\ Len(probe.feeds[1].urls[1].entries) = 4 + MaxPerCategory - 1
    /\ probe.feeds[1].urls[1].entries[1].link = <<>>
    /\ probe.feeds[1].urls[1].entries[2].title = ""
    /\ probe.feeds[1].urls[1].entries[3].date = "none"
    /\ \A e \in 5..(4 + MaxPerCategory - 1) : Included(<<1, 1, e>>)
    /\ Included(<<1, 2, 1>>)
    /\ ~Included(<<1, 2, 2>>)
    /\ CategoryCount(probe.run, 1) = MaxPerCategory
    /\ probe.articles[MaxPerCategory].created_at = CutoffTime + 1

SimilarRan == probe.fn = "find_similar_articles" /\ probe.done

\* whether the article is left out of the candidates whatever query
\* returns it: it is the reference, or it has the domain of the reference
Excluded(a) ==
    \/ a.url = Reference.url
    \/ UrlParses(a.url) /\ StripWww(Netloc(a.url)) = TargetDomain(Reference)

\* the articles the keyword query returns that are not excluded
KeywordCollected ==
    IF Reference.keywords = <<>> THEN {}
    ELSE {a \in SeqToSet(KeywordDocs(store, Reference.keywords)) : ~Excluded(a)}

TagCollected ==
    {a \in SeqToSet(TagDocs(store, Reference.topic_tags)) : ~Excluded(a)}

TagQueryIssued == \E i \in DOMAIN probe.queries : probe.queries[i] = "topic_tags"

\* C29 (SpecSimilar): for a reference with keywords or tags, the query on
\* topic_tags is issued iff the keyword query and its exclusions left
\* fewer candidates than the limit and the reference has tags; the
\* candidates are then the articles collected from both queries, otherwise
\* those of the keyword query alone; and no url is twice in the candidate
\* list, also when both queries return its article.
C29_TagSupplement ==
    (SimilarRan /\ TargetDocs(store, probe.article_id) # <<>>
       /\ (Reference.topic_tags # {} \/ Reference.keywords # <<>>)) =>
        /\ TagQueryIssued <=>
              /\ Cardinality(KeywordCollected) < probe.limit
              /\ Reference.topic_tags # {}
        /\ SeqToSet(probe.candidates) =
              IF TagQueryIssued THEN KeywordCollected \cup TagCollected
              ELSE KeywordCollected
        /\ \A i, j \in DOMAIN probe.candidates :
              probe.candidates[i].url = probe.candidates[j].url => i = j

\* C29 witness: the keyword query left one candidate for a limit of two,
\* the tag query was issued, returned that candidate again and another
\* article, and the list has the two of them once each.
C29_Witness ==
    /\ SimilarRan
    /\ TargetDocs(store, probe.article_id) # <<>>
    /\ probe.limit = 2
    /\ Cardinality(KeywordCollected) = 1
    /\ TagQueryIssued
    /\ KeywordCollected \subseteq TagCollected
    /\ Cardinality(TagCollected) = 2
    /\ Len(probe.candidates) = 2

BiasResolved == probe.fn = "known_bias_label" /\ probe.done

\* the netloc without a leading "www."
StripLeadingWww(nl) ==
    IF Len(nl) >= 4 /\ SubSeq(nl, 1, 4) = <<"w", "w", "w", ".">>
    THEN SubSeq(nl, 5, Len(nl))
    ELSE nl

\* the baseline of a domain in a table: the label of the key equal to the
\* domain; without one, the label of the first entry whose key is within
\* the domain; without one, "Unknown"
Baseline(domain, table) ==
    LET exact == {i \in DOMAIN table : table[i][1] = domain}
        within == {i \in DOMAIN table : IsSubstring(table[i][1], domain)}
    IN  IF exact # {} THEN table[CHOOSE i \in exact : TRUE][2]
        ELSE IF within # {}
        THEN table[CHOOSE i \in within : \A j \in within : i <= j][2]
        ELSE UnknownLabel

\* C30 (SpecBias): for every url that parses and every table, the resolved
\* baseline is the label of the domain, the netloc without a leading
\* "www.", when the domain is a key of the table; otherwise the label of
\* the first entry in table order whose key is a substring of the domain;
\* otherwise "Unknown".
C30_BiasBaseline ==
    (BiasResolved /\ UrlParses(probe.url) /\ probe.bias_file.exists) =>
        probe.out = Baseline(StripLeadingWww(Netloc(probe.url)), probe.bias_file.bias_map)

\* C30 for the urls whose netloc has no "www." after its first character:
\* there the resolved baseline is the one of the domain, an exact match
\* before any substring match
C30_LeadingWwwOnly ==
    (BiasResolved /\ UrlParses(probe.url) /\ probe.bias_file.exists
       /\ StripWww(Netloc(probe.url)) = StripLeadingWww(Netloc(probe.url))) =>
        probe.out = Baseline(StripLeadingWww(Netloc(probe.url)), probe.bias_file.bias_map)

\* a subdomain whose table has a key within it before the key equal to it:
\* the label of the equal key was resolved
C30_ExactFirstWitness ==
    /\ BiasResolved
    /\ Netloc(probe.url) = HostWwwSub
    /\ Len(probe.bias_file.bias_map) = 2
    /\ probe.bias_file.bias_map[1][1] = HostA
    /\ probe.bias_file.bias_map[2][1] = HostSub
    /\ probe.out = TableLabels[2]

LadderRan == probe.fn = "prompt_text" /\ probe.done

\* the page is blocked: the fetch raised, or the scraped text is shorter
\* than 200 characters or holds a blocking phrase
Blocked ==
    \/ probe.fetch.raises
    \/ Len(ScrapedText) < MinScraped
    \/ HoldsBlockingPhrase

\* the rungs in their priority
FirstRung == ~Blocked
SecondRung == Blocked /\ Len(probe.summary) >= MinText
ThirdRung == Blocked /\ Len(probe.summary) < MinText

\* C31 (SpecLadder): the text sent is the start, 4000 characters at most,
\* of the scraped text when the page is not blocked; otherwise of the feed
\* summary when that has 50 characters or more; otherwise of the headline,
\* ". " and the summary.
C31_FallbackLadder ==
    LadderRan =>
        LET rung == IF FirstRung THEN ScrapedText
                    ELSE IF SecondRung THEN probe.summary
                    ELSE probe.headline \o <<".", " ">> \o probe.summary
        IN  /\ Len(probe.sent) <= PromptBudget
            /\ Len(probe.sent) = IF Len(rung) < PromptBudget THEN Len(rung) ELSE PromptBudget
            /\ \A i \in DOMAIN probe.sent : probe.sent[i] = rung[i]

\* C31 witness: the page was blocked and the summary has 49 characters:
\* the headline, ". " and the summary were sent.
C31_Witness ==
    /\ LadderRan
    /\ ThirdRung
    /\ ~probe.fetch.raises
    /\ Len(ScrapedText) >= MinScraped
    /\ Len(probe.summary) = MinText - 1
    /\ probe.headline = <<"H">>
    /\ probe.sent = <<"H", ".", " ">> \o probe.summary

\* a backfill run selects now, and selects no article
SelectsNothing ==
    /\ backfill.pc = "scheduled"
    /\ GetBackfillCandidates(store, BackfillLimit) = <<>>

\* C32 (SpecConverge): with a text service that always answers with valid
\* JSON, successive backfill runs eventually select no article.
C32_BackfillConverges == <>SelectsNothing

\* C32 with an answer that has a detailed summary of 10 characters or more
\* and at least one keyword: the runs come to select no article
C32_CompleteAnswersConverge ==
    (Len(probe.answer.keywords) > 0
       /\ TextLen(probe.answer.detailed_summary) >= SummaryMinLen) => <>SelectsNothing

\* C32, its first part: an article a backfill run saves as processed is not
\* among the candidates of the next selection
C32_ProcessedNotSelected ==
    [][\A u \in DOMAIN store' :
          (backfill.pc = "analyzing" /\ backfill'.pc = "sleeping"
             /\ store'[u].url = backfill.art.url
             /\ store'[u].processing_status = "processed")
          => \A i \in DOMAIN GetBackfillCandidates(store', BackfillLimit) :
                GetBackfillCandidates(store', BackfillLimit)[i].url # store'[u].url]_vars

\* a step of a backfill task, of the first request or of the other one
BackfillTaskStep == backfill' # backfill \/ probe' # probe

\* C33 (SpecOverlap): no step of an analysis or a backfill, ended well or
\* not, takes a tag from the topic_tags of a stored article, so the
\* category the article was harvested with stays among them.
C33_TagsOnlyGrow ==
    [][BackfillTaskStep =>
          \A k \in DOMAIN store :
              k \in DOMAIN store' /\ store[k].topic_tags \subseteq store'[k].topic_tags]_vars

\* C33 for one analysis on its own: whatever the response, the article
\* process_article returns has every tag it had, its category among them
C33_AnalysisKeepsTags ==
    (probe.fn = "process_article" /\ probe.done) =>
        /\ probe.art.topic_tags \subseteq probe.out.topic_tags
        /\ "Politics" \in probe.out.topic_tags

SavedUrls == {probe.saved[i] : i \in DOMAIN probe.saved}

\* C34 (SpecKeys): the keys of different urls are different, so after any
\* saves every url saved has exactly one record, and a save leaves the
\* records of the other urls as they were.
C34_OneRecordPerUrl ==
    probe.fn = "save_article" =>
        \A u \in SavedUrls : Cardinality({k \in DOMAIN store : store[k].url = u}) = 1

\* C34, its first part: the keys of different urls are different
C34_KeysDiffer == \A u, v \in KeyUrls : u # v => DocId(u) # DocId(v)

\* C34 for urls without "_": each url saved has exactly one record, also
\* when it was saved twice
C34_SlashOnlyUrls ==
    (probe.fn = "save_article" /\ \A u \in SavedUrls : ~Contains(u, "_")) =>
        \A u \in SavedUrls : Cardinality({k \in DOMAIN store : store[k].url = u}) = 1

\* a url was saved twice and another url once, all without "_"
C34_SavedTwice ==
    /\ probe.fn = "save_article"
    /\ Len(probe.saved) = 3
    /\ probe.saved[1] = probe.saved[3]
    /\ probe.saved[1] # probe.saved[2]
    /\ \A u \in SavedUrls : ~Contains(u, "_")
    /\ Cardinality(DOMAIN store) = 2

====
